---------------------------- MODULE Spec2Model ----------------------------
(***************************************************************************)
(* Model of ts-code-analyzer: the module resolver (findFile), the import   *)
(* graph scanner (scanTypescriptAsync / scanAsync) of src/ts-scan.ts and   *)
(* the dependency CSV listing (printFilesDependencyCSV, CSV.stringify).    *)
(*                                                                         *)
(* Strings are sequences of one-character strings, so that prefix tests,   *)
(* concatenation and path normalisation are computed as the code computes  *)
(* them.  The file system is a set of regular files named by their         *)
(* normalised path relative to the process working directory; a directory  *)
(* exists when it is an ancestor of a file.  Nothing exists outside the    *)
(* working directory.                                                      *)
(***************************************************************************)
EXTENDS Integers, Sequences, FiniteSets, TLC

VARIABLES
    files,        \* regular files of the file system (normalised paths)
    unreadable,   \* files whose readFileSync / preProcessFile throws
    baseDir,      \* --base argument of the process
    srcPath,      \* entry path of the current scanAsync call
    pc,           \* "idle" | "scanning" | "done"  (scanAsync's position)
    stack,        \* call stack of scanTypescriptAsync frames
    cachedFiles,  \* memo table, in insertion order: <<[src, imports]>>
    reads,        \* paths handed to readFileSync, in call order
    errlog,       \* paths logged by the catch block
    result,       \* value scanAsync resolved with
    csv,          \* text printed by printFilesDependencyCSV
    calls,        \* scanAsync calls made so far in this process
    invocations,  \* scanTypescriptAsync calls made so far in this process
    rq,           \* resolver request [basePath, baseDir, filename]
    rr,           \* resolver answer  [ret, probes]
    todo,         \* ts-component main: source paths still to process
    emitted,      \* ts-component main: source paths whose output was printed
    tree,         \* syntax tree handed to scanAllChildren
    lineInfo,     \* flat records (Parser._info), mutated in place by the walk
    ptr,          \* Parser._ptr
    astStack,     \* Parser.stack: references (indices) into lineInfo
    frames,       \* activations of Parser.traverse: [node, at]
    attentions,   \* Parser.attentions: references into lineInfo
    tested,       \* records handed to the rule table, in order
    ppc,          \* position of the per-file body of ts-component main
    nodes,        \* node list reported for the file
    csvSrc,       \* input text of CSV.parse
    csvOut,       \* [parsed, text, reparsed] of one parse/stringify round
    jsxOut        \* what ts-parser main printed in a jsx mode, <<>> before

componentVars == <<todo, emitted>>

parserVars == <<tree, lineInfo, ptr, astStack, frames, attentions, tested,
                ppc, nodes>>

csvVars == <<csvSrc, csvOut>>

treeVars == <<jsxOut>>

vars == <<files, unreadable, baseDir, srcPath, pc, stack, cachedFiles,
          reads, errlog, result, csv, calls, invocations, rq, rr,
          componentVars, parserVars, csvVars, treeVars>>

scanVars == <<srcPath, pc, stack, cachedFiles, reads, errlog, result, csv,
              calls, invocations>>

-----------------------------------------------------------------------------
(* Bounds *)

MaxCalls == 2
MaxDepth == 8

-----------------------------------------------------------------------------
(* Strings *)

SLASH == "/"
EMPTY == <<>>

\* JavaScript undefined, as a value no path string equals
None == <<"undefined">>

S_ts == <<".", "t", "s">>
S_js == <<".", "j", "s">>
S_jsx == <<".", "j", "s", "x">>
S_tsx == <<".", "t", "s", "x">>
S_index == <<"i", "n", "d", "e", "x">>
S_libs == <<"l", "i", "b", "s">>
S_src == <<"s", "r", "c">>
S_dot == <<".">>
S_dotdot == <<".", ".">>
S_slash == <<"/">>

\* String.prototype.startsWith / indexOf(prefix) === 0
StartsWith(s, prefix) ==
    /\ Len(prefix) <= Len(s)
    /\ SubSeq(s, 1, Len(prefix)) = prefix

\* String.prototype.substring(n)
Substring(s, n) == SubSeq(s, n + 1, Len(s))

\* Array.prototype.join('/')
RECURSIVE JoinWith(_, _)
JoinWith(parts, sep) ==
    IF parts = <<>> THEN <<>>
    ELSE IF Len(parts) = 1 THEN parts[1]
    ELSE parts[1] \o sep \o JoinWith(Tail(parts), sep)

\* String.prototype.split(sep), sep one character
RECURSIVE SplitFrom(_, _, _, _)
SplitFrom(s, sep, i, cur) ==
    IF i > Len(s) THEN <<cur>>
    ELSE IF s[i] = sep THEN <<cur>> \o SplitFrom(s, sep, i + 1, <<>>)
    ELSE SplitFrom(s, sep, i + 1, Append(cur, s[i]))

SplitOn(s, sep) == SplitFrom(s, sep, 1, <<>>)

Split(s) == SplitOn(s, SLASH)

-----------------------------------------------------------------------------
(* node:path (posix) *)

\* normalizeString: resolves '.' and '..' segments, drops empty segments
RECURSIVE NormalizeSegs(_, _, _)
NormalizeSegs(segs, acc, allowAboveRoot) ==
    IF segs = <<>> THEN acc
    ELSE LET seg == Head(segs)
             rest == Tail(segs)
         IN  IF seg = <<>> \/ seg = S_dot
             THEN NormalizeSegs(rest, acc, allowAboveRoot)
             ELSE IF seg = S_dotdot
             THEN IF acc # <<>> /\ acc[Len(acc)] # S_dotdot
                  THEN NormalizeSegs(rest, SubSeq(acc, 1, Len(acc) - 1), allowAboveRoot)
                  ELSE IF allowAboveRoot
                  THEN NormalizeSegs(rest, Append(acc, S_dotdot), allowAboveRoot)
                  ELSE NormalizeSegs(rest, acc, allowAboveRoot)
             ELSE NormalizeSegs(rest, Append(acc, seg), allowAboveRoot)

\* path.normalize
PathNormalize(p) ==
    IF p = <<>> THEN S_dot
    ELSE LET isAbsolute == p[1] = SLASH
             trailingSeparator == p[Len(p)] = SLASH
             body == JoinWith(NormalizeSegs(Split(p), <<>>, ~isAbsolute), S_slash)
             body2 == IF body = <<>>
                      THEN IF isAbsolute THEN <<>>
                           ELSE IF trailingSeparator THEN <<".", "/">> ELSE S_dot
                      ELSE IF trailingSeparator THEN body \o S_slash ELSE body
         IN  IF isAbsolute THEN S_slash \o body2 ELSE body2

\* path.join(a, b): the non-empty arguments joined by '/', then normalised
PathJoin2(a, b) ==
    IF a = <<>> /\ b = <<>> THEN S_dot
    ELSE IF a = <<>> THEN PathNormalize(b)
    ELSE IF b = <<>> THEN PathNormalize(a)
    ELSE PathNormalize(a \o S_slash \o b)

\* path.join(a)
PathJoin1(a) == PathJoin2(a, <<>>)

\* path.dirname: index of the last '/' that ends the directory part, or 0
RECURSIVE DirnameEnd(_, _, _)
DirnameEnd(p, i, matchedSlash) ==
    IF i < 2 THEN 0
    ELSE IF p[i] = SLASH
         THEN IF ~matchedSlash THEN i ELSE DirnameEnd(p, i - 1, matchedSlash)
         ELSE DirnameEnd(p, i - 1, FALSE)

PathDirname(p) ==
    IF p = <<>> THEN S_dot
    ELSE LET hasRoot == p[1] = SLASH
             end == DirnameEnd(p, Len(p), TRUE)
         IN  IF end = 0 THEN (IF hasRoot THEN S_slash ELSE S_dot)
             ELSE IF hasRoot /\ end = 2 THEN <<"/", "/">>
             ELSE SubSeq(p, 1, end - 1)

-----------------------------------------------------------------------------
(* The file system and the sources it holds *)

F_index == S_index \o S_ts
F_libs_a == S_libs \o <<"/", "a">> \o S_ts
F_src_index == S_src \o S_slash \o S_index \o S_ts
F_src_libs_a == S_src \o S_slash \o S_libs \o <<"/", "a">> \o S_ts
F_src_libs_b == S_src \o S_slash \o S_libs \o <<"/", "b">> \o S_ts
F_src_libs_index == S_src \o S_slash \o S_libs \o S_slash \o S_index \o S_ts

\* import specifiers that occur in the sources
I_libs_a == <<".", "/">> \o S_libs \o <<"/", "a">>
I_bare_libs_b == S_libs \o <<"/", "b">>
I_nope == <<".", "/", "n", "o", "p", "e">>
I_abs == <<"/", "a", "b", "s">>
I_libs == <<".", "/">> \o S_libs
I_up_index == <<".", ".", "/">> \o S_index
I_b == <<".", "/", "b">>
I_here == S_dot

\* fileInfo.importedFiles.map(file => file.fileName) of each source, in source order
ImportedFiles(file) ==
    CASE file = F_index -> <<I_libs_a>>
      [] file = F_libs_a -> <<>>
      [] file = F_src_index -> <<I_libs_a, I_abs, I_bare_libs_b, I_nope, I_libs>>
      [] file = F_src_libs_a -> <<I_up_index, I_b>>
      [] file = F_src_libs_b -> <<I_here>>
      [] file = F_src_libs_index -> <<>>
      [] OTHER -> <<>>

SrcProject == {F_src_index, F_src_libs_a, F_src_libs_b, F_src_libs_index}
CwdProject == {F_index, F_libs_a}

\* the file systems the scanner is run on
FileSets ==
    { SrcProject,
      SrcProject \ {F_src_libs_index},
      SrcProject \ {F_src_libs_b},
      SrcProject \cup CwdProject,
      SrcProject \cup {F_index},
      CwdProject }

UnreadableSets == SUBSET {F_src_libs_a, F_src_libs_b}

\* further files the resolver is tried on: other extensions, a file that
\* shadows a directory index, a file named by an absolute path
F_src_libs_a_js == S_src \o S_slash \o S_libs \o <<"/", "a">> \o S_js
F_src_libs_a_tsx == S_src \o S_slash \o S_libs \o <<"/", "a">> \o S_tsx
F_src_libs_a_jsx == S_src \o S_slash \o S_libs \o <<"/", "a">> \o S_jsx
F_src_libs_ts == S_src \o S_slash \o S_libs \o S_ts
F_abs_libs_a == <<"/">> \o S_libs \o <<"/", "a">> \o S_ts

ResolverFileSets ==
    FileSets \cup
    { SrcProject \cup {F_src_libs_a_js},
      (SrcProject \ {F_src_libs_a}) \cup {F_src_libs_a_js, F_src_libs_a_tsx, F_src_libs_a_jsx},
      (SrcProject \ {F_src_libs_a}) \cup {F_src_libs_a_tsx, F_src_libs_a_jsx},
      SrcProject \cup {F_src_libs_ts},
      SrcProject \cup {F_abs_libs_a} }

\* ancestors of a normalised path: every proper prefix that ends before a '/'
IsAncestorDir(d, f) ==
    /\ Len(d) < Len(f)
    /\ SubSeq(f, 1, Len(d)) = d
    /\ f[Len(d) + 1] = SLASH

\* fs.lstatSync(p).isDirectory(), for a path that exists
IsDirectory(p) ==
    /\ p # <<>>
    /\ LET n == PathNormalize(p)
           d == IF n[Len(n)] = SLASH THEN SubSeq(n, 1, Len(n) - 1) ELSE n
       IN  \/ d = S_dot
           \/ \E f \in files : IsAncestorDir(d, f)

\* p names a regular file
IsRegular(p) ==
    /\ p # <<>>
    /\ p[Len(p)] # SLASH
    /\ PathNormalize(p) \in files

\* fs.existsSync(p)
existsSync(p) == IsRegular(p) \/ IsDirectory(p)

\* fs.existsSync(p) && !fs.lstatSync(p).isDirectory()
IsFile(p) == existsSync(p) /\ ~IsDirectory(p)

\* fs.readFileSync(p) returns (does not throw)
Readable(p) == IsFile(p) /\ PathNormalize(p) \notin unreadable

-----------------------------------------------------------------------------
(* Module resolver: src/ts-scan.ts *)

\* variant: '.js' is tried before '.ts'
exts_JsFirst == << <<>>, S_js, S_ts, S_jsx, S_tsx >>

exts == << <<>>, S_ts, S_js, S_jsx, S_tsx >>

\* exts.some(...): the first candidate that is a regular file, '' if none,
\* together with the candidates probed on the way
RECURSIVE FirstFile(_, _)
FirstFile(cands, probed) ==
    IF cands = <<>> THEN [file |-> EMPTY, probes |-> probed]
    ELSE IF IsFile(Head(cands))
         THEN [file |-> Head(cands), probes |-> Append(probed, Head(cands))]
         ELSE FirstFile(Tail(cands), Append(probed, Head(cands)))

findFileWithExts(makePathCallback(_)) ==
    FirstFile([i \in 1..Len(exts) |-> makePathCallback(exts[i])], <<>>)

\* the candidate paths of the blocks of findFile, by the callback each passes
HereIndex(filename, ext) == PathJoin1(filename \o S_slash \o S_index \o ext)
Plain(filename, ext) == PathJoin1(filename \o ext)
PlainIndex(filename, ext) == PathJoin1(filename \o S_slash \o S_index \o ext)
InDir(dir, filename, ext) == PathJoin2(dir, filename \o ext)
InDirIndex(dir, filename, ext) == PathJoin2(dir, filename \o S_slash \o S_index \o ext)

\* findFile for filename === '.' (lines 53-61)
findFileDot(filename) ==
    LET file == findFileWithExts(LAMBDA ext : HereIndex(filename, ext)).file
    IN  IF file # EMPTY THEN file ELSE None

\* findFile for any other relative filename (lines 62-102); each LET is one
\* `{ const file = findFileWithExts(...); if (file) return file; }` block
findFileOrdinary(basePath, bDir, filename) ==
    IF IsFile(filename) THEN filename
    ELSE LET file1 == findFileWithExts(LAMBDA ext : Plain(filename, ext)).file
         IN  IF file1 # EMPTY THEN file1 ELSE
         LET file2 == findFileWithExts(LAMBDA ext : PlainIndex(filename, ext)).file
         IN  IF file2 # EMPTY THEN file2 ELSE
         IF basePath = EMPTY THEN None ELSE
         LET file3 == findFileWithExts(LAMBDA ext : InDir(basePath, filename, ext)).file
         IN  IF file3 # EMPTY THEN file3 ELSE
         LET file4 == findFileWithExts(LAMBDA ext : InDirIndex(basePath, filename, ext)).file
         IN  IF file4 # EMPTY THEN file4 ELSE
         LET file5 == findFileWithExts(LAMBDA ext : InDir(bDir, filename, ext)).file
         IN  IF file5 # EMPTY THEN file5 ELSE
         LET file6 == findFileWithExts(LAMBDA ext : InDirIndex(bDir, filename, ext)).file
         IN  IF file6 # EMPTY THEN file6 ELSE None

\* variant: a filename starting with '/' is looked up like any other
findFile_NoAbsoluteGuard(basePath, bDir, filename) ==
    IF filename = S_dot THEN findFileDot(filename)
    ELSE findFileOrdinary(basePath, bDir, filename)

\* findFile(basePath, baseDir, filename)
findFile(basePath, bDir, filename) ==
    IF StartsWith(filename, S_slash) THEN None
    ELSE IF filename = S_dot THEN findFileDot(filename)
    ELSE findFileOrdinary(basePath, bDir, filename)

\* the paths the same call hands to fs.existsSync, in order
findFileProbes(basePath, bDir, filename) ==
    IF StartsWith(filename, S_slash) THEN <<>>
    ELSE IF filename = S_dot
    THEN findFileWithExts(LAMBDA ext : HereIndex(filename, ext)).probes
    ELSE <<filename>> \o
         IF IsFile(filename) THEN <<>> ELSE
         LET r1 == findFileWithExts(LAMBDA ext : Plain(filename, ext))
         IN  r1.probes \o IF r1.file # EMPTY THEN <<>> ELSE
         LET r2 == findFileWithExts(LAMBDA ext : PlainIndex(filename, ext))
         IN  r2.probes \o IF r2.file # EMPTY THEN <<>> ELSE
         IF basePath = EMPTY THEN <<>> ELSE
         LET r3 == findFileWithExts(LAMBDA ext : InDir(basePath, filename, ext))
         IN  r3.probes \o IF r3.file # EMPTY THEN <<>> ELSE
         LET r4 == findFileWithExts(LAMBDA ext : InDirIndex(basePath, filename, ext))
         IN  r4.probes \o IF r4.file # EMPTY THEN <<>> ELSE
         LET r5 == findFileWithExts(LAMBDA ext : InDir(bDir, filename, ext))
         IN  r5.probes \o IF r5.file # EMPTY THEN <<>> ELSE
         findFileWithExts(LAMBDA ext : InDirIndex(bDir, filename, ext)).probes

isDefined(value) == value # None

\* removeRootDir(srcDir, src)
removeRootDir(srcDir, src) ==
    IF srcDir # EMPTY /\ StartsWith(src, srcDir)
    THEN Substring(src, Len(srcDir))
    ELSE src

-----------------------------------------------------------------------------
(* Import graph scanner: src/ts-scan.ts *)

S_src_slash == S_src \o S_slash
S_dot_src_slash == <<".", "/">> \o S_src \o S_slash

\* command lines the process is started with
Entries == {F_src_index, <<".", "/">> \o F_src_index, F_index}
BaseDirs == {EMPTY, S_src_slash, S_dot_src_slash}

RECURSIVE MapFindFile(_, _, _)
MapFindFile(basePath, bDir, names) ==
    IF names = <<>> THEN <<>>
    ELSE <<findFile(basePath, bDir, Head(names))>>
         \o MapFindFile(basePath, bDir, Tail(names))

RECURSIVE TakeWhileDefined(_)
TakeWhileDefined(seq) ==
    IF seq = <<>> \/ Head(seq) = None THEN <<>>
    ELSE <<Head(seq)>> \o TakeWhileDefined(Tail(seq))

\* variant: the first unresolved specifier ends the list of imports
ResolvedImports_StopAtUnresolved(p, bDir) ==
    TakeWhileDefined(MapFindFile(PathDirname(p), bDir, ImportedFiles(PathNormalize(p))))

\* lines 119-123: the imports of the file read from path p
ResolvedImports(p, bDir) ==
    SelectSeq(MapFindFile(PathDirname(p), bDir, ImportedFiles(PathNormalize(p))),
              isDefined)

CachedKeys == {cachedFiles[i].src : i \in 1..Len(cachedFiles)}

\* cachedFiles[srcPath] is truthy
InCache(p) == p \in CachedKeys

Top == stack[Len(stack)]

\* the caller's forEach moves on to its next import
Advance == [stack EXCEPT ![Len(stack)].todo = Tail(@)]

\* the path the next scanTypescriptAsync call is made with
Callee == Head(Top.todo)

HasCall == pc = "scanning" /\ stack # <<>> /\ Top.todo # <<>>

\* scanAsync(srcPath, baseDir) up to its call of scanTypescriptAsync
scanAsync(entry) ==
    /\ pc \in {"idle", "done", "printed"}
    /\ calls < MaxCalls
    /\ calls' = calls + 1
    /\ srcPath' = entry
    /\ pc' = "scanning"
    /\ stack' = <<[src |-> EMPTY, todo |-> <<entry>>]>>
    /\ UNCHANGED <<files, unreadable, baseDir, cachedFiles, reads, errlog,
                   result, csv, invocations, rq, rr,
                   componentVars, parserVars, csvVars, treeVars>>

\* scanTypescriptAsync: `if (cachedFiles[srcPath]) return;`
CallCached ==
    /\ HasCall
    /\ InCache(Callee)
    /\ stack' = Advance
    /\ invocations' = invocations + 1
    /\ UNCHANGED <<files, unreadable, baseDir, srcPath, pc, cachedFiles, reads,
                   errlog, result, csv, calls, rq, rr,
                   componentVars, parserVars, csvVars, treeVars>>

\* variant: the exception is not caught in the failing call and unwinds the
\* whole recursion
CallThrows_Abort ==
    /\ HasCall
    /\ ~InCache(Callee)
    /\ ~Readable(Callee)
    /\ reads' = Append(reads, Callee)
    /\ errlog' = Append(errlog, Callee)
    /\ stack' = <<[src |-> EMPTY, todo |-> <<>>]>>
    /\ invocations' = invocations + 1
    /\ UNCHANGED <<files, unreadable, baseDir, srcPath, pc, cachedFiles,
                   result, csv, calls, rq, rr,
                   componentVars, parserVars, csvVars, treeVars>>

\* scanTypescriptAsync: readFileSync / preProcessFile throws, the catch logs
CallThrows ==
    /\ HasCall
    /\ ~InCache(Callee)
    /\ ~Readable(Callee)
    /\ reads' = Append(reads, Callee)
    /\ errlog' = Append(errlog, Callee)
    /\ stack' = Advance
    /\ invocations' = invocations + 1
    /\ UNCHANGED <<files, unreadable, baseDir, srcPath, pc, cachedFiles,
                   result, csv, calls, rq, rr,
                   componentVars, parserVars, csvVars, treeVars>>

\* variant: the memo entry is not recorded before the recursion
CallScan_NoMemo ==
    /\ HasCall
    /\ ~InCache(Callee)
    /\ Readable(Callee)
    /\ Len(stack) < MaxDepth
    /\ LET imports == ResolvedImports(Callee, baseDir)
       IN  stack' = Append(Advance, [src |-> Callee, todo |-> imports])
    /\ reads' = Append(reads, Callee)
    /\ invocations' = invocations + 1
    /\ UNCHANGED <<files, unreadable, baseDir, srcPath, pc, cachedFiles, errlog,
                   result, csv, calls, rq, rr,
                   componentVars, parserVars, csvVars, treeVars>>

\* variant: only the first import is scanned
CallScan_FirstImportOnly ==
    /\ HasCall
    /\ ~InCache(Callee)
    /\ Readable(Callee)
    /\ Len(stack) < MaxDepth
    /\ LET imports == ResolvedImports(Callee, baseDir)
       IN  /\ cachedFiles' = Append(cachedFiles, [src |-> Callee, imports |-> imports])
           /\ stack' = Append(Advance, [src |-> Callee,
                                        todo |-> IF imports = <<>> THEN <<>>
                                                 ELSE <<imports[1]>>])
    /\ reads' = Append(reads, Callee)
    /\ invocations' = invocations + 1
    /\ UNCHANGED <<files, unreadable, baseDir, srcPath, pc, errlog, result,
                   csv, calls, rq, rr,
                   componentVars, parserVars, csvVars, treeVars>>

\* scanTypescriptAsync: the file is preprocessed, its imports are resolved and
\* memoised, and the forEach over them starts (a new frame)
CallScan ==
    /\ HasCall
    /\ ~InCache(Callee)
    /\ Readable(Callee)
    /\ Len(stack) < MaxDepth
    /\ LET imports == ResolvedImports(Callee, baseDir)
       IN  /\ cachedFiles' = Append(cachedFiles, [src |-> Callee, imports |-> imports])
           /\ stack' = Append(Advance, [src |-> Callee, todo |-> imports])
    /\ reads' = Append(reads, Callee)
    /\ invocations' = invocations + 1
    /\ UNCHANGED <<files, unreadable, baseDir, srcPath, pc, errlog, result,
                   csv, calls, rq, rr,
                   componentVars, parserVars, csvVars, treeVars>>

\* a scanTypescriptAsync call ends: its forEach is exhausted
Return ==
    /\ pc = "scanning"
    /\ Len(stack) > 1
    /\ Top.todo = <<>>
    /\ stack' = SubSeq(stack, 1, Len(stack) - 1)
    /\ UNCHANGED <<files, unreadable, baseDir, srcPath, pc, cachedFiles, reads,
                   errlog, result, csv, calls, invocations, rq, rr,
                   componentVars, parserVars, csvVars, treeVars>>

\* lines 137-141: Object.entries(cachedFiles).map(...)
ScanResult(bDir) ==
    [i \in 1..Len(cachedFiles) |->
        [source |-> removeRootDir(bDir, cachedFiles[i].src),
         imports |-> [j \in 1..Len(cachedFiles[i].imports) |->
                         removeRootDir(bDir, cachedFiles[i].imports[j])]]]

\* scanAsync after `await scanTypescriptAsync(...)`: the promise resolves
Resolve ==
    /\ pc = "scanning"
    /\ Len(stack) = 1
    /\ Top.todo = <<>>
    /\ stack' = <<>>
    /\ result' = ScanResult(baseDir)
    /\ pc' = "done"
    /\ UNCHANGED <<files, unreadable, baseDir, srcPath, cachedFiles, reads,
                   errlog, csv, calls, invocations, rq, rr,
                   componentVars, parserVars, csvVars, treeVars>>

-----------------------------------------------------------------------------
(* Delimited text: src/libs/csv-parser.ts *)

delim == ","
QUOTE == "\""
SPACE == " "
NEWLINE == "\n"

Max(a, b) == IF a >= b THEN a ELSE b

Contains(s, ch) == \E i \in 1..Len(s) : s[i] = ch

\* str.replace(/"/g, '""')
RECURSIVE DoubleQuotes(_)
DoubleQuotes(s) ==
    IF s = <<>> THEN <<>>
    ELSE (IF Head(s) = QUOTE THEN <<QUOTE, QUOTE>> ELSE <<Head(s)>>)
         \o DoubleQuotes(Tail(s))

\* indentSpace(str, size): str right-aligned in a field of `size` characters
indentSpace(str, size) ==
    LET padded == [i \in 1..size |-> SPACE] \o str
        keep == Max(size, Len(str))
    IN  SubSeq(padded, Len(padded) - keep + 1, Len(padded))

\* the text stringify appends for one column; a column without `size` is
\* padded to the default size 0
stringifyCol(col) ==
    IF \/ Contains(col.value, delim)
       \/ Contains(col.value, SPACE)
       \/ Contains(col.value, QUOTE)
       \/ Contains(col.value, NEWLINE)
    THEN <<QUOTE>> \o indentSpace(DoubleQuotes(col.value), 0) \o <<QUOTE>>
    ELSE (IF col.quat # EMPTY THEN <<QUOTE>> ELSE <<>>)
         \o indentSpace(col.value, 0)
         \o (IF col.quat # EMPTY THEN <<QUOTE>> ELSE <<>>)

RECURSIVE stringifyRow(_, _)
stringifyRow(row, i) ==
    IF i > Len(row) THEN <<>>
    ELSE (IF i > 1 THEN <<delim>> ELSE <<>>)
         \o stringifyCol(row[i]) \o stringifyRow(row, i + 1)

RECURSIVE stringifyFrom(_, _)
stringifyFrom(parsed, i) ==
    IF i > Len(parsed) THEN <<>>
    ELSE (IF i > 1 THEN <<NEWLINE>> ELSE <<>>)
         \o stringifyRow(parsed[i], 1) \o stringifyFrom(parsed, i + 1)

\* CSV.stringify(parsed)
stringify(parsed) == stringifyFrom(parsed, 1)

-----------------------------------------------------------------------------
(* Dependency listing: printFilesDependencyCSV *)

S_source == <<"s", "o", "u", "r", "c", "e">>
S_import == <<"i", "m", "p", "o", "r", "t">>

\* { value: v }: a column with neither size nor quat
Item(v) == [value |-> v, quat |-> EMPTY]

\* variant: a file without imports gets no row
FileRows_NoEmptyRow(file) ==
    [j \in 1..Len(file.imports) |-> <<file.source, file.imports[j]>>]

\* file.imports.length > 0 ? file.imports.map(dep => [file.source, dep])
\*                         : [[file.source, '']]
FileRows(file) ==
    IF Len(file.imports) > 0
    THEN [j \in 1..Len(file.imports) |-> <<file.source, file.imports[j]>>]
    ELSE << <<file.source, EMPTY>> >>

\* .flat()
RECURSIVE Flat(_)
Flat(seqs) == IF seqs = <<>> THEN <<>> ELSE Head(seqs) \o Flat(Tail(seqs))

DependencyRows(scanFiles) ==
    LET flat == Flat([i \in 1..Len(scanFiles) |-> FileRows(scanFiles[i])])
    IN  [k \in 1..Len(flat) |-> <<Item(flat[k][1]), Item(flat[k][2])>>]

\* the text handed to console.log
DependencyCSV(scanFiles) ==
    stringify(<< <<Item(S_source), Item(S_import)>> >> \o DependencyRows(scanFiles))

printFilesDependencyCSV ==
    /\ pc = "done"
    /\ csv' = DependencyCSV(result)
    /\ pc' = "printed"
    /\ UNCHANGED <<files, unreadable, baseDir, srcPath, stack, cachedFiles,
                   reads, errlog, result, calls, invocations, rq, rr,
                   componentVars, parserVars, csvVars, treeVars>>

-----------------------------------------------------------------------------
(* The scanner process *)

ComponentIdle ==
    /\ todo = <<>>
    /\ emitted = <<>>

ParserIdle ==
    /\ tree = <<>>
    /\ lineInfo = <<>>
    /\ ptr = 0
    /\ astStack = <<>>
    /\ frames = <<>>
    /\ attentions = <<>>
    /\ tested = <<>>
    /\ ppc = "idle"
    /\ nodes = <<>>

CsvIdle ==
    /\ csvSrc = <<>>
    /\ csvOut = <<>>

TreeIdle == jsxOut = <<>>

NoRequest == [basePath |-> EMPTY, baseDir |-> EMPTY, filename |-> EMPTY]
NoAnswer == [ret |-> None, probes |-> <<>>]

\* new Set(list): the distinct elements of list in the order of their first
\* occurrence
RECURSIVE SetOf(_, _)
SetOf(list, acc) ==
    IF list = <<>> THEN acc
    ELSE SetOf(Tail(list),
               IF \E i \in 1..Len(acc) : acc[i] = Head(list) THEN acc
               ELSE Append(acc, Head(list)))

\* main of ts-component.ts after `await scanAsync(srcPath, baseDir)`:
\* const result = new Set(importedFiles.map((file) => file.source))
ComponentMain ==
    /\ pc = "done"
    /\ todo' = SetOf([i \in 1..Len(result) |-> result[i].source], <<>>)
    /\ pc' = "component"
    /\ UNCHANGED <<files, unreadable, baseDir, srcPath, stack, cachedFiles,
                   reads, errlog, result, csv, calls, invocations, rq, rr,
                   emitted, parserVars, csvVars, treeVars>>

\* const sourcePathWithBase = path.join(baseDir, sourcePath)
sourcePathWithBase(sourcePath) == PathJoin2(baseDir, sourcePath)

\* one callback of forEach that reads its file, walks it and prints its
\* output
ComponentFile ==
    /\ pc = "component"
    /\ todo # <<>>
    /\ Readable(sourcePathWithBase(Head(todo)))
    /\ emitted' = Append(emitted, Head(todo))
    /\ todo' = Tail(todo)
    /\ UNCHANGED <<files, unreadable, baseDir, scanVars, rq, rr,
                   parserVars, csvVars, treeVars>>

\* fs.readFileSync throws in a callback of forEach: nothing catches it, the
\* promise of main is rejected and the remaining callbacks do not run
ComponentThrows ==
    /\ pc = "component"
    /\ todo # <<>>
    /\ ~Readable(sourcePathWithBase(Head(todo)))
    /\ pc' = "aborted"
    /\ UNCHANGED <<files, unreadable, baseDir, srcPath, stack, cachedFiles,
                   reads, errlog, result, csv, calls, invocations, rq, rr,
                   componentVars, parserVars, csvVars, treeVars>>

\* forEach is over: main returns
ComponentEnd ==
    /\ pc = "component"
    /\ todo = <<>>
    /\ pc' = "finished"
    /\ UNCHANGED <<files, unreadable, baseDir, srcPath, stack, cachedFiles,
                   reads, errlog, result, csv, calls, invocations, rq, rr,
                   componentVars, parserVars, csvVars, treeVars>>

Init ==
    /\ files \in FileSets
    /\ unreadable \in UnreadableSets
    /\ unreadable \subseteq files
    /\ baseDir \in BaseDirs
    /\ srcPath = EMPTY
    /\ pc = "idle"
    /\ stack = <<>>
    /\ cachedFiles = <<>>
    /\ reads = <<>>
    /\ errlog = <<>>
    /\ result = <<>>
    /\ csv = <<>>
    /\ calls = 0
    /\ invocations = 0
    /\ rq = NoRequest
    /\ rr = NoAnswer
    /\ ComponentIdle
    /\ TreeIdle
    /\ ParserIdle
    /\ CsvIdle

Next ==
    \/ \E entry \in Entries : scanAsync(entry)
    \/ CallCached
    \/ CallThrows
    \/ CallScan
    \/ Return
    \/ Resolve
    \/ printFilesDependencyCSV
    \/ ComponentMain
    \/ ComponentFile
    \/ ComponentThrows
    \/ ComponentEnd

Spec == Init /\ [][Next]_vars

-----------------------------------------------------------------------------
(* The resolver as a function of its arguments *)

FromDirs == {EMPTY, S_dot, S_src, S_src \o S_slash \o S_libs}
I_abs_libs_a == <<"/">> \o S_libs \o <<"/", "a">>

Specifiers == {I_libs_a, I_bare_libs_b, I_nope, I_abs, I_libs, I_up_index,
               I_b, I_here, F_src_index, I_abs_libs_a}

ResolveInit ==
    /\ files \in ResolverFileSets
    /\ unreadable = {}
    /\ baseDir = EMPTY
    /\ srcPath = EMPTY
    /\ pc = "idle"
    /\ stack = <<>>
    /\ cachedFiles = <<>>
    /\ reads = <<>>
    /\ errlog = <<>>
    /\ result = <<>>
    /\ csv = <<>>
    /\ calls = 0
    /\ invocations = 0
    /\ rq = NoRequest
    /\ rr = NoAnswer
    /\ ComponentIdle
    /\ TreeIdle
    /\ ParserIdle
    /\ CsvIdle

\* one call findFile(basePath, baseDir, filename)
FindFileCall(basePath, bDir, filename) ==
    /\ rq = NoRequest
    /\ rq' = [basePath |-> basePath, baseDir |-> bDir, filename |-> filename]
    /\ rr' = [ret |-> findFile(basePath, bDir, filename),
              probes |-> findFileProbes(basePath, bDir, filename)]
    /\ UNCHANGED <<files, unreadable, baseDir, scanVars,
                   componentVars, parserVars, csvVars, treeVars>>

ResolveNext ==
    \E basePath \in FromDirs, bDir \in BaseDirs, filename \in Specifiers :
        FindFileCall(basePath, bDir, filename)

ResolveSpec == ResolveInit /\ [][ResolveNext]_vars

-----------------------------------------------------------------------------
(* Properties of the scanner *)

Range(seq) == {seq[i] : i \in 1..Len(seq)}

CountIn(seq, x) == Cardinality({i \in 1..Len(seq) : seq[i] = x})

\* the paths a depth-first scan from `frontier` memoises: a readable path
\* contributes itself and the paths its imports resolve to
RECURSIVE Closure(_, _)
Closure(frontier, seen) ==
    IF frontier = {} THEN seen
    ELSE LET p == CHOOSE x \in frontier : TRUE
         IN  IF p \in seen \/ ~Readable(p)
             THEN Closure(frontier \ {p}, seen)
             ELSE Closure((frontier \ {p}) \cup Range(ResolvedImports(p, baseDir)),
                          seen \cup {p})

\* the stack bound never cuts a scan short
DepthBoundNotReached == Len(stack) < MaxDepth

\* C1: scanAsync returns one edge per distinct file visited: no two edges of
\* the result are edges of the same file, however the paths are spelled.
C1_OneEdgePerFile ==
    pc = "done" =>
        /\ Len(result) = Len(cachedFiles)
        /\ \A i, j \in 1..Len(result) :
              i # j =>
                 /\ result[i].source # result[j].source
                 /\ PathNormalize(cachedFiles[i].src) # PathNormalize(cachedFiles[j].src)

\* the forEach items created so far: one per scanAsync call, one per import
\* of each memoised file
RECURSIVE SumImports(_)
SumImports(n) ==
    IF n = 0 THEN 0 ELSE Len(cachedFiles[n].imports) + SumImports(n - 1)

\* C2: the scan terminates: every memo key was read and preprocessed at most
\* once, every frame of the recursion is a distinct memo key, each
\* scanTypescriptAsync call consumes one import of a memoised file (or the
\* entry), and a scan under way always has a next step.
C2_Terminates ==
    /\ \A i \in 1..Len(cachedFiles) : CountIn(reads, cachedFiles[i].src) <= 1
    /\ \A i, j \in 2..Len(stack) :
          /\ InCache(stack[i].src)
          /\ i # j => stack[i].src # stack[j].src
    /\ invocations <= calls + SumImports(Len(cachedFiles))
    /\ pc = "done" => invocations = calls + SumImports(Len(cachedFiles))
    /\ pc = "scanning" =>
          /\ stack # <<>>
          /\ Top.todo # <<>> =>
                \/ InCache(Callee)
                \/ ~Readable(Callee)
                \/ Len(stack) < MaxDepth

C2_Witness ==
    /\ pc = "done"
    /\ \E i, j \in 1..Len(cachedFiles) :
          /\ i # j
          /\ cachedFiles[j].src \in Range(cachedFiles[i].imports)
          /\ PathNormalize(cachedFiles[i].src) \in
                 {PathNormalize(x) : x \in Range(cachedFiles[j].imports)}

\* C3: when scanAsync resolves no call is pending and every readable path
\* reachable from the entry through resolved imports has its edge in the result.
C3_CompleteClosure ==
    pc = "done" =>
        /\ stack = <<>>
        /\ \A p \in Closure({srcPath}, {}) :
              \E i \in 1..Len(result) :
                  /\ i <= Len(cachedFiles)
                  /\ cachedFiles[i].src = p
                  /\ result[i].source = removeRootDir(baseDir, p)

C3_Witness ==
    /\ pc = "done"
    /\ Cardinality(Closure({srcPath}, {})) >= 4
    /\ \E i \in 1..Len(cachedFiles) : Len(cachedFiles[i].imports) >= 2

\* C4: the imports of an edge are the paths the resolver returned for the
\* file's specifiers, in specifier order, unresolved specifiers left out, and
\* each is a regular file.
C4_ImportsAreResolved ==
    pc = "done" =>
        \A i \in 1..Len(cachedFiles) :
            LET src == cachedFiles[i].src
                imports == cachedFiles[i].imports
                names == ImportedFiles(PathNormalize(src))
                found == MapFindFile(PathDirname(src), baseDir, names)
                hits == {n \in 1..Len(names) : found[n] # None}
            IN  /\ Len(imports) = Cardinality(hits)
                /\ \A n \in hits :
                      imports[Cardinality({m \in hits : m <= n})] = found[n]
                /\ \A k \in 1..Len(imports) : IsFile(imports[k])
                /\ Len(result[i].imports) = Len(imports)

C4_Witness ==
    /\ pc = "done"
    /\ \E i \in 1..Len(cachedFiles) :
          LET src == cachedFiles[i].src
              names == ImportedFiles(PathNormalize(src))
              found == MapFindFile(PathDirname(src), baseDir, names)
          IN  \E m, n \in 1..Len(names) :
                 /\ m < n
                 /\ found[m] = None
                 /\ found[n] # None
                 /\ found[n] \in Range(cachedFiles[i].imports)

\* C5: a file whose read throws is logged and gets no edge, its imports are
\* not followed, and every other reachable file still gets its edge.
C5_FailureIsLocal ==
    pc = "done" =>
        /\ \A i \in 1..Len(cachedFiles) : Readable(cachedFiles[i].src)
        /\ Range(errlog) = {p \in Range(reads) : ~Readable(p)}
        /\ \A i \in 1..Len(cachedFiles) :
              \A k \in 1..Len(cachedFiles[i].imports) :
                  Readable(cachedFiles[i].imports[k]) => InCache(cachedFiles[i].imports[k])
        /\ calls = 1 => CachedKeys = Closure({srcPath}, {})

C5_Witness ==
    /\ pc = "done"
    /\ \E i \in 1..Len(cachedFiles) :
          LET imports == cachedFiles[i].imports
          IN  \E j, k \in 1..Len(imports) :
                 /\ j < k
                 /\ ~Readable(imports[j])
                 /\ imports[j] \in Range(errlog)
                 /\ Readable(imports[k])
                 /\ InCache(imports[k])

\* the file named by path p lies in the directory named by bDir
LiesUnder(bDir, p) ==
    /\ bDir # EMPTY
    /\ StartsWith(PathNormalize(p), PathNormalize(bDir))

\* C6: every source of the result is relative to baseDir: the prefix is
\* removed for every file under baseDir, however baseDir is spelled, and a
\* path is left as it is otherwise.
C6_RelativeToBaseDir ==
    pc = "done" =>
        \A i \in 1..Len(result) :
            LET src == cachedFiles[i].src
            IN  IF LiesUnder(baseDir, src)
                THEN result[i].source =
                         Substring(PathNormalize(src), Len(PathNormalize(baseDir)))
                ELSE result[i].source = src

-----------------------------------------------------------------------------
(* Properties of the resolver *)

\* the extension list as the specification gives it
ClaimExts == << <<>>, <<".", "t", "s">>, <<".", "j", "s">>,
                <<".", "j", "s", "x">>, <<".", "t", "s", "x">> >>

S_slash_index == <<"/", "i", "n", "d", "e", "x">>

\* the candidates of the specification, in its order: the literal specifier,
\* specifier + ext, specifier + '/index' + ext and, if withDirs, the last two
\* series joined to fromDir and then to baseDir
ClaimedCandidates(withDirs) ==
    LET f == rq.filename
        plain == [i \in 1..5 |-> PathJoin1(f \o ClaimExts[i])]
        index == [i \in 1..5 |-> PathJoin1(f \o S_slash_index \o ClaimExts[i])]
        fromPlain == [i \in 1..5 |-> PathJoin2(rq.basePath, f \o ClaimExts[i])]
        fromIndex == [i \in 1..5 |->
                         PathJoin2(rq.basePath, f \o S_slash_index \o ClaimExts[i])]
        basePlain == [i \in 1..5 |-> PathJoin2(rq.baseDir, f \o ClaimExts[i])]
        baseIndex == [i \in 1..5 |->
                         PathJoin2(rq.baseDir, f \o S_slash_index \o ClaimExts[i])]
    IN  <<f>> \o plain \o index \o
        (IF withDirs THEN fromPlain \o fromIndex \o basePlain \o baseIndex ELSE <<>>)

\* the first candidate that is a regular file, none if there is none
FirstExisting(cands) ==
    IF \A k \in 1..Len(cands) : ~IsFile(cands[k]) THEN None
    ELSE cands[CHOOSE k \in 1..Len(cands) :
                   /\ IsFile(cands[k])
                   /\ \A m \in 1..(k - 1) : ~IsFile(cands[m])]

\* a call was made with a specifier that is neither '.' nor absolute
OrdinaryRequest ==
    /\ rq # NoRequest
    /\ rq.filename # S_dot
    /\ ~StartsWith(rq.filename, S_slash)

\* C7 as stated: the series joined to fromDir and to baseDir are tried only
\* when baseDir is non-empty.
C7_GuardedByBaseDir ==
    OrdinaryRequest => rr.ret = FirstExisting(ClaimedCandidates(rq.baseDir # EMPTY))

\* C7: for a specifier that is neither '.' nor absolute, findFile returns the
\* first existing regular file among: the literal specifier; specifier + ext;
\* specifier + '/index' + ext; then, only when fromDir is non-empty, the last
\* two series joined to fromDir and finally joined to baseDir; none otherwise.
C7_CandidateOrder ==
    OrdinaryRequest => rr.ret = FirstExisting(ClaimedCandidates(rq.basePath # EMPTY))

\* a file found in the series joined to fromDir although baseDir is empty
C7_Witness ==
    /\ OrdinaryRequest
    /\ rq.baseDir = EMPTY
    /\ rq.basePath # EMPTY
    /\ rr.ret # None
    /\ Len(rr.probes) > 11
    /\ F_src_libs_a_js \in files

\* C8: resolving '.' from fromDir looks up './index' + ext in fromDir, and
\* tries nothing else.
C8_DotResolvesInFromDir ==
    (rq # NoRequest /\ rq.filename = S_dot) =>
        rr.ret = FirstExisting([i \in 1..5 |->
                     PathJoin2(rq.basePath, <<".">> \o S_slash_index \o ClaimExts[i])])

\* C9: for a specifier that starts with '/', findFile returns none and probes
\* no path.
C9_AbsoluteIsNotFollowed ==
    (rq # NoRequest /\ StartsWith(rq.filename, S_slash)) =>
        /\ rr.ret = None
        /\ rr.probes = <<>>

\* an absolute specifier whose file exists, and which joined to fromDir names
\* an existing file too
C9_Witness ==
    /\ rq.filename = I_abs_libs_a
    /\ rq.basePath = S_src
    /\ F_abs_libs_a \in files
    /\ F_src_libs_a \in files
    /\ rr.ret = None

-----------------------------------------------------------------------------
(* Properties of the dependency listing *)

\* data rows of the first n edges of the result
RECURSIVE RowOffset(_)
RowOffset(n) ==
    IF n = 0 THEN 0 ELSE Max(1, Len(result[n].imports)) + RowOffset(n - 1)

\* the listing of the two-file project: index.ts imports libs/a.ts
TwoFileListing ==
    S_source \o <<",">> \o S_import \o <<"\n">>
    \o F_index \o <<",">> \o F_libs_a \o <<"\n">>
    \o F_libs_a \o <<",">>

TwoFileProject ==
    /\ files = CwdProject
    /\ srcPath = F_index
    /\ baseDir = EMPTY
    /\ calls = 1

-----------------------------------------------------------------------------
(* Syntax trees, as ts.createSourceFile hands them to scanAllChildren.     *)
(* A node kind is the sequence of the words of its name, so that a         *)
(* pattern such as /Parameter\/Identifier$/ is tested on the text of the   *)
(* path; a text is a sequence of lexemes (tokens and comments), white      *)
(* space left out.                                                         *)

MaxNodes == 4

K_SourceFile == <<"Source", "File">>
K_SyntaxList == <<"Syntax", "List">>
K_EndOfFileToken == <<"End", "Of", "File", "Token">>
K_Identifier == <<"Identifier">>
K_PropertyAccessExpression == <<"Property", "Access", "Expression">>
K_CallExpression == <<"Call", "Expression">>
K_ExpressionStatement == <<"Expression", "Statement">>
K_DotToken == <<"Dot", "Token">>
K_OpenParenToken == <<"Open", "Paren", "Token">>
K_CloseParenToken == <<"Close", "Paren", "Token">>
K_SemicolonToken == <<"Semicolon", "Token">>
K_VariableStatement == <<"Variable", "Statement">>
K_VariableDeclarationList == <<"Variable", "Declaration", "List">>
K_VariableDeclaration == <<"Variable", "Declaration">>
K_ExportKeyword == <<"Export", "Keyword">>
K_ConstKeyword == <<"Const", "Keyword">>
K_EqualsToken == <<"Equals", "Token">>
K_ArrowFunction == <<"Arrow", "Function">>
K_EqualsGreaterThanToken == <<"Equals", "Greater", "Than", "Token">>
K_JsxSelfClosingElement == <<"Jsx", "Self", "Closing", "Element">>
K_JsxAttributes == <<"Jsx", "Attributes">>
K_LessThanToken == <<"Less", "Than", "Token">>
K_SlashToken == <<"Slash", "Token">>
K_GreaterThanToken == <<"Greater", "Than", "Token">>
K_FunctionDeclaration == <<"Function", "Declaration">>
K_FunctionKeyword == <<"Function", "Keyword">>
K_Block == <<"Block">>
K_OpenBraceToken == <<"Open", "Brace", "Token">>
K_CloseBraceToken == <<"Close", "Brace", "Token">>
K_JSDocComment == <<"JSDoc", "Comment">>
K_SingleLineCommentTrivia == <<"Single", "Line", "Comment", "Trivia">>
K_MultiLineCommentTrivia == <<"Multi", "Line", "Comment", "Trivia">>

\* A parsed source: par[i] the parent of node i (0 for the root), nodes
\* numbered in source order; kind[i]; lex[i] the token of a terminal;
\* lead[i] the comments in front of node i, given at the outermost node
\* that starts there.  A JSDocComment node lies inside the leading comments
\* of its parent: its token is the text of the comment, and it takes no
\* room of its own in the text of the parent.
Iota(n) == [i \in 1..n |-> i]

getChildren(t, i) == SelectSeq(Iota(Len(t.par)), LAMBDA j : t.par[j] = i)

CommentTexts(comments) == [k \in 1..Len(comments) |-> comments[k].text]

IsJSDoc(t, i) == t.kind[i] = K_JSDocComment

RECURSIVE getText(_, _)
RECURSIVE ChildrenFullText(_, _)
\* node.getText(): the text of the node without its leading trivia
getText(t, i) ==
    IF getChildren(t, i) = <<>> THEN t.lex[i]
    ELSE ChildrenFullText(t, getChildren(t, i))

ChildrenFullText(t, cs) ==
    IF cs = <<>> THEN <<>>
    ELSE (IF IsJSDoc(t, Head(cs)) THEN <<>>
          ELSE CommentTexts(t.lead[Head(cs)]) \o getText(t, Head(cs)))
         \o ChildrenFullText(t, Tail(cs))

\* node.getFullText()
getFullText(t, i) == CommentTexts(t.lead[i]) \o getText(t, i)

FullWidth(t, i) == IF IsJSDoc(t, i) THEN 0 ELSE Len(getFullText(t, i))

RECURSIVE SumWidth(_, _)
SumWidth(t, cs) ==
    IF cs = <<>> THEN 0 ELSE FullWidth(t, Head(cs)) + SumWidth(t, Tail(cs))

EarlierSiblings(t, i) ==
    SelectSeq(getChildren(t, t.par[i]), LAMBDA j : j < i)

\* node.pos: where the full text of the node starts, counted in lexemes
RECURSIVE NodePos(_, _)
NodePos(t, i) ==
    IF t.par[i] = 0 THEN 0
    ELSE IF SumWidth(t, EarlierSiblings(t, i)) = 0 THEN NodePos(t, t.par[i])
    ELSE NodePos(t, t.par[i]) + Len(t.lead[t.par[i]])
         + SumWidth(t, EarlierSiblings(t, i))

\* ts.getLeadingCommentRanges(node.getFullText(), 0)
RECURSIVE getLeadingCommentRanges(_, _)
getLeadingCommentRanges(t, i) ==
    IF IsJSDoc(t, i) THEN <<>>
    ELSE IF t.lead[i] # <<>> THEN t.lead[i]
    ELSE IF t.par[i] # 0 /\ NodePos(t, i) = NodePos(t, t.par[i])
         THEN getLeadingCommentRanges(t, t.par[i])
    ELSE <<>>

\* node.getLeadingTriviaWidth(), counted in lexemes
getLeadingTriviaWidth(t, i) == Len(getLeadingCommentRanges(t, i))

-----------------------------------------------------------------------------
(* The syntax flattener: scanAllChildren of ts-parser.ts                   *)

CommentInfo(trivia, depth) ==
    [element |-> TRUE, level |-> depth, kind |-> trivia.kind,
     text |-> <<trivia.text>>, hasNodes |-> FALSE]

NodeInfo(t, node, depth) ==
    [element |-> Len(getChildren(t, node)) = 0, level |-> depth,
     kind |-> t.kind[node], text |-> getText(t, node),
     hasNodes |-> Len(getChildren(t, node)) > 0]

\* the mutant of TriviaInfos: node.pos is not compared with pos
TriviaInfos_NoPosGuard(t, node, pos, depth) ==
    IF getLeadingTriviaWidth(t, node) > 0
    THEN LET trivias == getLeadingCommentRanges(t, node)
         IN  [k \in 1..Len(trivias) |-> CommentInfo(trivias[k], depth)]
    ELSE <<>>

\* the records pushed for the leading comments of node
TriviaInfos(t, node, pos, depth) ==
    IF NodePos(t, node) # pos /\ getLeadingTriviaWidth(t, node) > 0
    THEN LET trivias == getLeadingCommentRanges(t, node)
         IN  [k \in 1..Len(trivias) |-> CommentInfo(trivias[k], depth)]
    ELSE <<>>

RECURSIVE scanAllChildren(_, _, _, _)
RECURSIVE scanEachChild(_, _, _, _)

\* the mutant of scanAllChildren: depth is not incremented for the children
scanAllChildren_SameDepth(t, node, pos, depth) ==
    TriviaInfos(t, node, pos, depth) \o <<NodeInfo(t, node, depth)>> \o
    (IF t.kind[node] = K_JSDocComment THEN <<>>
     ELSE scanEachChild(t, getChildren(t, node), NodePos(t, node), depth))

\* scanAllChildren(result, node, pos, depth): the records it pushes onto
\* result, in order
scanAllChildren(t, node, pos, depth) ==
    TriviaInfos(t, node, pos, depth) \o <<NodeInfo(t, node, depth)>> \o
    (IF t.kind[node] = K_JSDocComment THEN <<>>
     ELSE scanEachChild(t, getChildren(t, node), NodePos(t, node), depth + 1))

\* childrend.forEach((c) => scanAllChildren(result, c, node.pos, depth))
scanEachChild(t, childrend, pos, depth) ==
    IF childrend = <<>> THEN <<>>
    ELSE scanAllChildren(t, Head(childrend), pos, depth)
         \o scanEachChild(t, Tail(childrend), pos, depth)

-----------------------------------------------------------------------------
(* Sources handed to the parser *)

NoLex == <<>>
NoLead == <<>>

L_export == <<"e", "x", "p", "o", "r", "t">>
L_const == <<"c", "o", "n", "s", "t">>
L_Foo == <<"F", "o", "o">>
L_div == <<"d", "i", "v">>
L_arrow == <<"=", ">">>
L_function == <<"f", "u", "n", "c", "t", "i", "o", "n">>
L_jsdoc == <<"/", "*", "*", "x", "*", "/">>
L_comment == <<"/", "/", "c">>

Input(par, kind, lex, lead) ==
    [par |-> par, kind |-> kind, lex |-> lex, lead |-> lead]

NoLeads(n) == [i \in 1..n |-> NoLead]

\* export const Foo = () => <div />;
FooSource ==
    Input(<<0, 1, 2, 3, 4, 3, 6, 6, 8, 9, 9, 9, 12, 12, 12, 12, 12, 17, 17,
            17, 20, 17, 17, 3, 1>>,
          <<K_SourceFile, K_SyntaxList, K_VariableStatement, K_SyntaxList,
            K_ExportKeyword, K_VariableDeclarationList, K_ConstKeyword,
            K_SyntaxList, K_VariableDeclaration, K_Identifier, K_EqualsToken,
            K_ArrowFunction, K_OpenParenToken, K_SyntaxList,
            K_CloseParenToken, K_EqualsGreaterThanToken,
            K_JsxSelfClosingElement, K_LessThanToken, K_Identifier,
            K_JsxAttributes, K_SyntaxList, K_SlashToken, K_GreaterThanToken,
            K_SemicolonToken, K_EndOfFileToken>>,
          <<NoLex, NoLex, NoLex, NoLex, L_export, NoLex, L_const, NoLex,
            NoLex, L_Foo, <<"=">>, NoLex, <<"(">>, NoLex, <<")">>, L_arrow,
            NoLex, <<"<">>, L_div, NoLex, NoLex, <<"/">>, <<">">>, <<";">>,
            NoLex>>,
          NoLeads(25))

\* a.b.c();
CallChain3Source ==
    Input(<<0, 1, 2, 3, 4, 5, 6, 6, 6, 5, 5, 4, 4, 4, 3, 1>>,
          <<K_SourceFile, K_SyntaxList, K_ExpressionStatement,
            K_CallExpression, K_PropertyAccessExpression,
            K_PropertyAccessExpression, K_Identifier, K_DotToken,
            K_Identifier, K_DotToken, K_Identifier, K_OpenParenToken,
            K_SyntaxList, K_CloseParenToken, K_SemicolonToken,
            K_EndOfFileToken>>,
          <<NoLex, NoLex, NoLex, NoLex, NoLex, NoLex, <<"a">>, <<".">>,
            <<"b">>, <<".">>, <<"c">>, <<"(">>, NoLex, <<")">>, <<";">>,
            NoLex>>,
          NoLeads(16))

\* a.b();
CallChain2Source ==
    Input(<<0, 1, 2, 3, 4, 5, 5, 5, 4, 4, 4, 3, 1>>,
          <<K_SourceFile, K_SyntaxList, K_ExpressionStatement,
            K_CallExpression, K_PropertyAccessExpression, K_Identifier,
            K_DotToken, K_Identifier, K_OpenParenToken, K_SyntaxList,
            K_CloseParenToken, K_SemicolonToken, K_EndOfFileToken>>,
          <<NoLex, NoLex, NoLex, NoLex, NoLex, <<"a">>, <<".">>, <<"b">>,
            <<"(">>, NoLex, <<")">>, <<";">>, NoLex>>,
          NoLeads(13))

\* f();
CallChain1Source ==
    Input(<<0, 1, 2, 3, 4, 4, 4, 4, 3, 1>>,
          <<K_SourceFile, K_SyntaxList, K_ExpressionStatement,
            K_CallExpression, K_Identifier, K_OpenParenToken, K_SyntaxList,
            K_CloseParenToken, K_SemicolonToken, K_EndOfFileToken>>,
          <<NoLex, NoLex, NoLex, NoLex, <<"f">>, <<"(">>, NoLex, <<")">>,
            <<";">>, NoLex>>,
          NoLeads(10))

\* /**x*/ function f() {}      (the doc comment is also a child node)
JSDocSource ==
    Input(<<0, 1, 2, 3, 3, 3, 3, 3, 3, 3, 10, 10, 10, 1>>,
          <<K_SourceFile, K_SyntaxList, K_FunctionDeclaration, K_JSDocComment,
            K_FunctionKeyword, K_Identifier, K_OpenParenToken, K_SyntaxList,
            K_CloseParenToken, K_Block, K_OpenBraceToken, K_SyntaxList,
            K_CloseBraceToken, K_EndOfFileToken>>,
          <<NoLex, NoLex, NoLex, L_jsdoc, L_function, <<"f">>, <<"(">>,
            NoLex, <<")">>, NoLex, <<"{">>, NoLex, <<"}">>, NoLex>>,
          [i \in 1..14 |->
              IF i = 1
              THEN <<[kind |-> K_MultiLineCommentTrivia, text |-> L_jsdoc]>>
              ELSE NoLead])

\* f(); // c                   (a comment in front of the end of the file)
CommentSource ==
    Input(<<0, 1, 2, 3, 4, 4, 4, 4, 3, 1>>,
          <<K_SourceFile, K_SyntaxList, K_ExpressionStatement,
            K_CallExpression, K_Identifier, K_OpenParenToken, K_SyntaxList,
            K_CloseParenToken, K_SemicolonToken, K_EndOfFileToken>>,
          <<NoLex, NoLex, NoLex, NoLex, <<"f">>, <<"(">>, NoLex, <<")">>,
            <<";">>, NoLex>>,
          [i \in 1..10 |->
              IF i = 10
              THEN <<[kind |-> K_SingleLineCommentTrivia, text |-> L_comment]>>
              ELSE NoLead])

K_NumericLiteral == <<"Numeric", "Literal">>
K_ExportAssignment == <<"Export", "Assignment">>
K_DefaultKeyword == <<"Default", "Keyword">>
L_default == <<"d", "e", "f", "a", "u", "l", "t">>

\* export const a = 1; export default a;
ExportSource ==
    Input(<<0, 1, 2, 3, 4, 3, 6, 6, 8, 9, 9, 9, 3, 2, 14, 14, 14, 14, 1>>,
          <<K_SourceFile, K_SyntaxList, K_VariableStatement, K_SyntaxList,
            K_ExportKeyword, K_VariableDeclarationList, K_ConstKeyword,
            K_SyntaxList, K_VariableDeclaration, K_Identifier, K_EqualsToken,
            K_NumericLiteral, K_SemicolonToken, K_ExportAssignment,
            K_ExportKeyword, K_DefaultKeyword, K_Identifier, K_SemicolonToken,
            K_EndOfFileToken>>,
          <<NoLex, NoLex, NoLex, NoLex, L_export, NoLex, L_const, NoLex,
            NoLex, <<"a">>, <<"=">>, <<"1">>, <<";">>, NoLex, L_export,
            L_default, <<"a">>, <<";">>, NoLex>>,
          NoLeads(19))

\* const F = () => <A.B />;
DottedSelfSource ==
    Input(<<0, 1, 2, 3, 4, 4, 6, 7, 7, 7, 10, 10, 10, 10, 10, 15, 15, 17, 17,
            17, 15, 21, 15, 15, 3, 1>>,
          <<K_SourceFile, K_SyntaxList, K_VariableStatement,
            K_VariableDeclarationList, K_ConstKeyword, K_SyntaxList,
            K_VariableDeclaration, K_Identifier, K_EqualsToken,
            K_ArrowFunction, K_OpenParenToken, K_SyntaxList,
            K_CloseParenToken, K_EqualsGreaterThanToken,
            K_JsxSelfClosingElement, K_LessThanToken,
            K_PropertyAccessExpression, K_Identifier, K_DotToken,
            K_Identifier, K_JsxAttributes, K_SyntaxList, K_SlashToken,
            K_GreaterThanToken, K_SemicolonToken, K_EndOfFileToken>>,
          <<NoLex, NoLex, NoLex, NoLex, L_const, NoLex, NoLex, <<"F">>,
            <<"=">>, NoLex, <<"(">>, NoLex, <<")">>, L_arrow, NoLex, <<"<">>,
            NoLex, <<"A">>, <<".">>, <<"B">>, NoLex, NoLex, <<"/">>, <<">">>,
            <<";">>, NoLex>>,
          NoLeads(26))

\* <div />;                   (an element outside every declaration)
StatementJsxSource ==
    Input(<<0, 1, 2, 3, 4, 4, 4, 7, 4, 4, 3, 1>>,
          <<K_SourceFile, K_SyntaxList, K_ExpressionStatement,
            K_JsxSelfClosingElement, K_LessThanToken, K_Identifier,
            K_JsxAttributes, K_SyntaxList, K_SlashToken, K_GreaterThanToken,
            K_SemicolonToken, K_EndOfFileToken>>,
          <<NoLex, NoLex, NoLex, NoLex, <<"<">>, L_div, NoLex, NoLex,
            <<"/">>, <<">">>, <<";">>, NoLex>>,
          NoLeads(12))

K_JsxFragment == <<"Jsx", "Fragment">>
K_JsxOpeningFragment == <<"Jsx", "Opening", "Fragment">>
K_JsxClosingFragment == <<"Jsx", "Closing", "Fragment">>
K_LessThanSlashToken == <<"Less", "Than", "Slash", "Token">>

\* const F = <></>;
FragmentSource ==
    Input(<<0, 1, 2, 3, 4, 4, 6, 7, 7, 7, 10, 11, 11, 10, 10, 15, 15, 3, 1>>,
          <<K_SourceFile, K_SyntaxList, K_VariableStatement,
            K_VariableDeclarationList, K_ConstKeyword, K_SyntaxList,
            K_VariableDeclaration, K_Identifier, K_EqualsToken,
            K_JsxFragment, K_JsxOpeningFragment, K_LessThanToken,
            K_GreaterThanToken, K_SyntaxList, K_JsxClosingFragment,
            K_LessThanSlashToken, K_GreaterThanToken, K_SemicolonToken,
            K_EndOfFileToken>>,
          <<NoLex, NoLex, NoLex, NoLex, L_const, NoLex, NoLex, <<"F">>,
            <<"=">>, NoLex, NoLex, <<"<">>, <<">">>, NoLex, NoLex, <<"</">>,
            <<">">>, <<";">>, NoLex>>,
          NoLeads(19))

K_ImportDeclaration == <<"Import", "Declaration">>
K_ImportClause == <<"Import", "Clause">>
K_StringLiteral == <<"String", "Literal">>
K_ImportKeyword == <<"Import", "Keyword">>
K_FromKeyword == <<"From", "Keyword">>
L_from == <<"f", "r", "o", "m">>

\* a string literal token, with its quotes
Quoted(specifier) == <<"'">> \o specifier \o <<"'">>

\* import x from '../index'; import y from './b';
\* the text of src/libs/a.ts, whose imports are ImportedFiles(F_src_libs_a)
LibsASource ==
    Input(<<0, 1, 2, 3, 3, 5, 3, 3, 3, 2, 10, 10, 12, 10, 10, 10, 1>>,
          <<K_SourceFile, K_SyntaxList, K_ImportDeclaration, K_ImportKeyword,
            K_ImportClause, K_Identifier, K_FromKeyword, K_StringLiteral,
            K_SemicolonToken, K_ImportDeclaration, K_ImportKeyword,
            K_ImportClause, K_Identifier, K_FromKeyword, K_StringLiteral,
            K_SemicolonToken, K_EndOfFileToken>>,
          <<NoLex, NoLex, NoLex, S_import, NoLex, <<"x">>, L_from,
            Quoted(ImportedFiles(F_src_libs_a)[1]), <<";">>, NoLex, S_import,
            NoLex, <<"y">>, L_from, Quoted(ImportedFiles(F_src_libs_a)[2]),
            <<";">>, NoLex>>,
          NoLeads(17))

\* the file a tree is the text of, for the trees with import declarations
SourcePathOf(t) == IF t = LibsASource THEN F_src_libs_a ELSE EMPTY

Programs == {FooSource, CallChain3Source, CallChain2Source, CallChain1Source,
             JSDocSource, CommentSource, ExportSource, DottedSelfSource,
             StatementJsxSource, FragmentSource, LibsASource}

\* every tree of at most MaxNodes nodes under a SourceFile, each other node
\* a property access or an identifier, with at most one comment
ShapeKinds == {K_PropertyAccessExpression, K_Identifier}
ShapeLexemes == <<<<"s">>, <<"t">>, <<"u">>, <<"v">>, <<"w">>, <<"x">>>>

Parents(n) ==
    {par \in [1..n -> 0..(n - 1)] : \A i \in 1..n : par[i] < i /\ (par[i] = 0 <=> i = 1)}

KindsOf(n) ==
    {kind \in [1..n -> ShapeKinds \cup {K_SourceFile}] :
        \A i \in 1..n : (kind[i] = K_SourceFile) <=> (i = 1)}

IsFirstChild(par, i) == par[i] # 0 /\ \A j \in 1..(i - 1) : par[j] # par[i]

ShapeOf(n, par, kind, c) ==
    Input(par, kind,
          [i \in 1..n |-> IF \E j \in 1..n : par[j] = i THEN NoLex
                          ELSE ShapeLexemes[i]],
          [i \in 1..n |->
              IF i = c
              THEN <<[kind |-> K_SingleLineCommentTrivia, text |-> L_comment]>>
              ELSE NoLead])

Shapes ==
    UNION {{ShapeOf(n, x[1], x[2], x[3]) :
              x \in {y \in Parents(n) \X KindsOf(n) \X (0..n) :
                        y[3] = 0 \/ ~IsFirstChild(y[1], y[3])}} :
           n \in 1..MaxNodes}

Sources == Programs \cup Shapes

-----------------------------------------------------------------------------
(* The pattern matcher of ts-component.ts: AstNode, AstStack *)

K_NamespaceImport == <<"Namespace", "Import">>
K_NamedImports == <<"Named", "Imports">>
K_ImportSpecifier == <<"Import", "Specifier">>
K_ClassDeclaration == <<"Class", "Declaration">>
K_QuestionDotToken == <<"Question", "Dot", "Token">>
K_ReturnStatement == <<"Return", "Statement">>
K_ParenthesizedExpression == <<"Parenthesized", "Expression">>
K_JsxElement == <<"Jsx", "Element">>
K_JsxOpeningElement == <<"Jsx", "Opening", "Element">>
K_JsxClosingElement == <<"Jsx", "Closing", "Element">>
K_Parameter == <<"Parameter">>
K_ObjectBindingPattern == <<"Object", "Binding", "Pattern">>
K_BindingElement == <<"Binding", "Element">>
K_ObjectLiteralExpression == <<"Object", "Literal", "Expression">>
K_PropertyAssignment == <<"Property", "Assignment">>

\* JavaScript undefined, as a reference to a record
Undefined == 0

Min(a, b) == IF a < b THEN a ELSE b

\* an AstInfo record after initAstNode(index, n); index counts from 0
initAstNode(index, n) ==
    [element |-> n.element, level |-> n.level, kind |-> n.kind,
     text |-> n.text, hasNodes |-> n.hasNodes,
     syntax |-> [export |-> FALSE], index |-> index,
     attention |-> "undefined", note |-> "", path |-> <<>>,
     identifier |-> Undefined, returnStatement |-> Undefined,
     children |-> <<>>]

\* AstStack.last(offset)
last(stk, offset) ==
    IF Len(stk) + offset \in 1..Len(stk) THEN stk[Len(stk) + offset]
    ELSE Undefined

\* AstStack.indexFromLast(kind, offset); 0 when nothing is found
RECURSIVE ScanDown(_, _, _, _)
ScanDown(info, stk, kinds, i) ==
    IF i < 1 THEN 0
    ELSE IF info[stk[i]].kind \in kinds THEN i
    ELSE ScanDown(info, stk, kinds, i - 1)

indexFromLast(info, stk, kinds, offset) ==
    ScanDown(info, stk, kinds, Len(stk) + offset)

\* AstStack.findFromLast(kind, offset, hook): the record handed to hook
findFromLast(info, stk, kinds, offset) ==
    LET i == indexFromLast(info, stk, kinds, offset)
    IN  IF i = 0 THEN Undefined ELSE stk[i]

\* AstStack.findTop(kind, hook): the outermost record of the run of kind
\* that ends right under the top; hook gets this[-1] when there is none
RECURSIVE FindTopFrom(_, _, _, _, _)
FindTopFrom(info, stk, kind, i, f) ==
    IF i < 1 THEN f
    ELSE IF info[stk[i]].kind = kind
         THEN FindTopFrom(info, stk, kind, i - 1, i)
    ELSE IF f > 0 THEN f
    ELSE FindTopFrom(info, stk, kind, i - 1, f)

findTop(info, stk, kind) ==
    LET f == FindTopFrom(info, stk, kind, Len(stk) - 1, 0)
    IN  IF f = 0 THEN Undefined ELSE stk[f]

\* AstStack.astPath
astPath(info, stk) ==
    JoinWith([i \in 1..Len(stk) |-> info[stk[i]].kind], S_slash)

\* the text of a pattern that names kinds separated by '/'
Pat(kinds) == JoinWith(kinds, S_slash)

\* /pattern$/.test(path)
EndsWith(s, suffix) ==
    /\ Len(suffix) <= Len(s)
    /\ SubSeq(s, Len(s) - Len(suffix) + 1, Len(s)) = suffix

\* /pattern/.test(path)
Includes(s, part) ==
    \E i \in 0..(Len(s) - Len(part)) : SubSeq(s, i + 1, i + Len(part)) = part

\* /before\/(.+?)after$/.test(path)
EndsWithGap(s, before, after) ==
    /\ EndsWith(s, after)
    /\ \E i \in 0..(Len(s) - Len(after) - Len(before) - 1) :
          SubSeq(s, i + 1, i + Len(before)) = before

\* exp.some((e) => e[1].test(path)): the first alternative that matches
RECURSIVE FirstAlt(_, _, _)
FirstAlt(path, exps, i) ==
    IF i > Len(exps) THEN 0
    ELSE IF EndsWith(path, exps[i]) THEN i
    ELSE FirstAlt(path, exps, i + 1)

\* trimQuat
trimQuat(str) ==
    IF /\ Len(str) >= 3
       /\ str[1] \in {"'", QUOTE}
       /\ str[Len(str)] \in {"'", QUOTE}
    THEN SubSeq(str, 2, Len(str) - 1)
    ELSE str

\* Parser.toAbsolutePath
toAbsolutePath(p) ==
    LET r == findFile(PathDirname(srcPath), baseDir, p)
    IN  IF r = None THEN p ELSE r

\* the mutant of pushAttention: the node is pushed once more
pushAttention_Twice(s, node, attention) ==
    [s EXCEPT !.info[node].attention = attention,
              !.att = Append(Append(@, node), node)]

\* Parser.pushAttention
pushAttention(s, node, attention) ==
    [s EXCEPT !.info[node].attention = attention, !.att = Append(@, node)]

\* isExport(offset, kind) of traverse; kind <<>> when not given
isExport(s, stk, offset, kind) ==
    LET node == last(stk, offset)
    IN  /\ node # Undefined
        /\ s.info[node].syntax.export
        /\ (kind # <<>> => s.info[node].kind = kind)

Throw(s) == [s EXCEPT !.thrown = TRUE]

-----------------------------------------------------------------------------
(* The rule table of Parser.traverse.  this.stack.match(regs) is           *)
(* regs.some(...): the first group with a matching pattern acts, and the   *)
(* groups after it are not tried.  s = [info, att, thrown] is the flat     *)
(* sequence, the attention list and whether a callback threw; stk is the   *)
(* ancestor stack, node the local variable node of traverse.               *)

ImportIdExps ==
    <<Pat(<<K_ImportDeclaration, K_ImportClause, K_Identifier>>),
      Pat(<<K_ImportDeclaration, K_ImportClause, K_NamespaceImport,
            K_Identifier>>),
      Pat(<<K_ImportDeclaration, K_ImportClause, K_NamedImports, K_SyntaxList,
            K_ImportSpecifier, K_Identifier>>)>>

ImportId(s, stk) ==
    LET ast == last(stk, 0)
        decl == findFromLast(s.info, stk, {K_ImportDeclaration}, -1)
    IN  IF decl = Undefined THEN s
        ELSE [s EXCEPT !.info[decl].children = Append(@, ast)]

ImportPath(s, stk) ==
    LET ast == last(stk, 0)
        decl == findFromLast(s.info, stk, {K_ImportDeclaration}, -1)
    IN  IF decl = Undefined THEN s
        ELSE [s EXCEPT !.info[decl].path =
                            toAbsolutePath(trimQuat(s.info[ast].text))]

VariableName(s, stk) ==
    LET ast == last(stk, 0)
        s1 == IF isExport(s, stk, -4, K_VariableStatement)
              THEN [s EXCEPT !.info[ast].syntax.export = TRUE] ELSE s
        s2 == pushAttention(s1, ast, "var")
        decl == findFromLast(s.info, stk, {K_VariableDeclaration}, -1)
    IN  IF decl = Undefined THEN s2
        ELSE [s2 EXCEPT !.info[decl].identifier = ast]

FunctionName(s, stk) ==
    LET ast == last(stk, 0)
        s1 == IF isExport(s, stk, -1, <<>>)
              THEN [s EXCEPT !.info[ast].syntax.export = TRUE] ELSE s
        s2 == pushAttention(s1, ast, "func")
        decl == findFromLast(s.info, stk, {K_FunctionDeclaration}, -1)
    IN  IF decl = Undefined THEN s2
        ELSE [s2 EXCEPT !.info[decl].identifier = ast]

Call(s, stk) ==
    LET ast == last(stk, 0)
    IN  [pushAttention(s, ast, "call") EXCEPT !.info[ast].text = <<>>]

CalleeExps ==
    <<Pat(<<K_CallExpression, K_PropertyAccessExpression, K_Identifier>>),
      Pat(<<K_CallExpression, K_PropertyAccessExpression, K_DotToken>>),
      Pat(<<K_CallExpression, K_PropertyAccessExpression,
            K_QuestionDotToken>>),
      Pat(<<K_CallExpression, K_Identifier>>)>>

CalleeOptions == <<-2, -2, -2, -1>>

\* the mutant of CalleeChain: the sort key of the call is left alone
CalleeChain_KeepIndex(s, stk, node, option) ==
    LET ast == last(stk, option)
    IN  [s EXCEPT !.info[ast].text = @ \o s.info[node].text]

CalleeChain(s, stk, node, option) ==
    LET ast == last(stk, option)
    IN  [s EXCEPT !.info[ast].index = s.info[node].index,
                  !.info[ast].text = @ \o s.info[node].text]

ReturnExps ==
    <<Pat(<<K_ReturnStatement, K_ParenthesizedExpression, K_JsxElement,
            K_JsxOpeningElement, K_Identifier>>),
      Pat(<<K_ReturnStatement, K_ParenthesizedExpression,
            K_JsxSelfClosingElement, K_Identifier>>),
      Pat(<<K_ReturnStatement, K_ParenthesizedExpression, K_JsxFragment,
            K_JsxOpeningFragment>>),
      Pat(<<K_ReturnStatement, K_JsxElement, K_JsxOpeningElement,
            K_Identifier>>),
      Pat(<<K_ReturnStatement, K_JsxSelfClosingElement, K_Identifier>>),
      Pat(<<K_ReturnStatement, K_JsxFragment, K_JsxOpeningFragment>>),
      Pat(<<K_ReturnStatement, K_JsxSelfClosingElement, K_Identifier>>)>>

ReturnOptions ==
    <<"jsx-open-return", "jsx-self-return", "jsx-open-return-fragment",
      "jsx-open-return", "jsx-self-return", "jsx-open-return-fragment",
      "jsx-open-return">>

\* node.identifier.returnStatement = ast, when node has an identifier
LinkReturn(s, decl, ast) ==
    IF decl = Undefined THEN s
    ELSE IF s.info[decl].identifier = Undefined THEN s
    ELSE [s EXCEPT !.info[s.info[decl].identifier].returnStatement = ast]

Return_(s, stk, option) ==
    LET ast == last(stk, 0)
        s1 == pushAttention([s EXCEPT !.info[ast].note = option], ast,
                            "component")
    IN  LinkReturn(s1, findFromLast(s.info, stk,
                       {K_FunctionDeclaration, K_VariableDeclaration}, -1),
                   ast)

ArrowReturnExps ==
    <<Pat(<<K_VariableDeclaration, K_ArrowFunction, K_ParenthesizedExpression,
            K_JsxElement, K_JsxOpeningElement>>),
      Pat(<<K_VariableDeclaration, K_ArrowFunction, K_ParenthesizedExpression,
            K_JsxElement, K_JsxSelfClosingElement>>),
      Pat(<<K_VariableDeclaration, K_ArrowFunction, K_ParenthesizedExpression,
            K_JsxFragment, K_JsxOpeningFragment>>),
      Pat(<<K_VariableDeclaration, K_ArrowFunction, K_JsxElement,
            K_JsxOpeningElement>>),
      Pat(<<K_VariableDeclaration, K_ArrowFunction, K_JsxElement,
            K_JsxSelfClosingElement>>),
      Pat(<<K_VariableDeclaration, K_ArrowFunction, K_JsxFragment,
            K_JsxOpeningFragment>>),
      Pat(<<K_VariableDeclaration, K_ArrowFunction, K_JsxOpeningElement>>),
      Pat(<<K_VariableDeclaration, K_ArrowFunction, K_JsxSelfClosingElement>>),
      Pat(<<K_VariableDeclaration, K_ArrowFunction, K_JsxOpeningFragment>>)>>

ArrowReturnOptions ==
    <<<<-4, "jsx-open-return">>, <<-4, "jsx-self-return">>,
      <<-4, "jsx-open-return-fragment">>, <<-3, "jsx-open-return">>,
      <<-3, "jsx-self-return">>, <<-3, "jsx-open-return-fragment">>,
      <<-2, "jsx-open-return">>, <<-2, "jsx-self-return">>,
      <<-2, "jsx-open-return-fragment">>>>

\* option.indexOf('fragment') >= 0
HasFragment(option) ==
    option \in {"jsx-open-return-fragment", "jsx-close-fragment"}

ArrowReturn(s, stk, option) ==
    LET ast == last(stk, 0)
        s1 == [s EXCEPT !.info[ast].note = option[2]]
        s2 == IF HasFragment(option[2])
              THEN pushAttention(s1, ast, "component") ELSE s1
    IN  LinkReturn(s2, last(stk, option[1]), ast)

JsxExps ==
    <<Pat(<<K_JsxOpeningElement, K_Identifier>>),
      Pat(<<K_JsxOpeningElement, K_PropertyAccessExpression, K_Identifier>>),
      Pat(<<K_JsxOpeningElement, K_PropertyAccessExpression, K_DotToken>>),
      Pat(<<K_JsxOpeningElement, K_PropertyAccessExpression,
            K_QuestionDotToken>>),
      Pat(<<K_JsxSelfClosingElement, K_Identifier>>),
      Pat(<<K_JsxSelfClosingElement, K_PropertyAccessExpression,
            K_Identifier>>),
      Pat(<<K_JsxClosingElement, K_Identifier>>),
      Pat(<<K_JsxClosingElement, K_PropertyAccessExpression, K_Identifier>>),
      Pat(<<K_JsxFragment, K_JsxClosingFragment>>)>>

\* the mutant of JsxOptions: the options of the self-closing and the
\* closing tag change places
JsxOptions_Swapped ==
    <<"jsx-open", "jsx-open-prop", "jsx-dot-prop", "jsx-question-dot-prop",
      "jsx-close", "jsx-self-prop", "jsx-self", "jsx-close-prop",
      "jsx-close-fragment">>

JsxOptions ==
    <<"jsx-open", "jsx-open-prop", "jsx-dot-prop", "jsx-question-dot-prop",
      "jsx-self", "jsx-self-prop", "jsx-close", "jsx-close-prop",
      "jsx-close-fragment">>

\* option.indexOf('prop') >= 0
HasProp(option) ==
    option \in {"jsx-open-prop", "jsx-dot-prop", "jsx-question-dot-prop",
                "jsx-self-prop", "jsx-close-prop"}

Jsx(s, stk, option) ==
    LET ast == last(stk, 0)
        s1 == [s EXCEPT !.info[ast].note = option]
    IN  IF HasProp(option)
        THEN LET pae == findFromLast(s.info, stk,
                                     {K_PropertyAccessExpression}, -1)
             IN  IF pae = Undefined THEN s1
                 ELSE [s1 EXCEPT !.info[pae].text = @ \o s.info[ast].text]
        ELSE IF findFromLast(s.info, stk, {K_FunctionDeclaration,
                                           K_VariableDeclaration}, -1)
                = Undefined
             THEN s1
        ELSE pushAttention(s1, ast, "component")

PropertyExps ==
    <<Pat(<<K_JsxOpeningElement, K_PropertyAccessExpression>>),
      Pat(<<K_JsxClosingElement, K_PropertyAccessExpression>>),
      Pat(<<K_PropertyAccessExpression>>),
      Pat(<<K_PropertyAccessExpression, K_Identifier>>),
      Pat(<<K_PropertyAccessExpression, K_DotToken>>),
      Pat(<<K_PropertyAccessExpression, K_QuestionDotToken>>)>>

PropertyOptions == <<"jsx-open", "jsx-close", "prop", "word", "word", "word">>

Property(s, stk, option) ==
    LET ast == last(stk, 0)
    IN  IF option = "word"
        THEN LET top == findTop(s.info, stk, K_PropertyAccessExpression)
             IN  IF top = Undefined THEN Throw(s)
                 ELSE [s EXCEPT !.info[top].text = @ \o s.info[ast].text]
        ELSE IF last(stk, -1) = Undefined THEN Throw(s)
        ELSE IF s.info[last(stk, -1)].kind = K_PropertyAccessExpression THEN s
        ELSE IF option \in {"jsx-open", "jsx-close"}
             THEN pushAttention([s EXCEPT !.info[ast].text = <<>>,
                                          !.info[ast].note = option],
                                ast, "component")
        ELSE pushAttention([s EXCEPT !.info[ast].text = <<>>], ast,
                           "expression")

Parameter(s, stk) == pushAttention(s, last(stk, 0), "parameter")

BindingParameter(s, stk, option) ==
    LET ast == last(stk, 0)
        s1 == pushAttention(s, ast, "parameter")
        own == findFromLast(s.info, stk, {K_ObjectBindingPattern}, -1)
        s2 == IF own = Undefined THEN s1
              ELSE [s1 EXCEPT !.info[own].text = s.info[ast].text]
        outer == findFromLast(s.info, stk, {K_ObjectBindingPattern}, option)
    IN  IF outer = Undefined THEN s2
        ELSE [s2 EXCEPT !.info[ast].text =
                            s2.info[outer].text \o <<".">> \o @]

\* the two patterns with (.+?) are tested by ArrowHit
ArrowExps ==
    <<Pat(<<K_ArrowFunction, K_OpenParenToken>>),
      Pat(<<K_ArrowFunction, K_CloseParenToken>>),
      Pat(<<K_CallExpression, K_OpenParenToken>>),
      Pat(<<K_CallExpression, K_CloseParenToken>>),
      Pat(<<K_ArrowFunction, K_EqualsGreaterThanToken>>),
      Pat(<<K_ArrowFunction, K_OpenParenToken, K_Block, K_OpenBraceToken>>),
      Pat(<<K_ArrowFunction, K_OpenParenToken, K_Block, K_CloseBraceToken>>)>>

ArrowOptions ==
    <<"open", "close", "open", "close", "arrow", "open", "close", "open",
      "close">>

ArrowHit(path) ==
    IF FirstAlt(path, ArrowExps, 1) # 0 THEN FirstAlt(path, ArrowExps, 1)
    ELSE IF EndsWithGap(path, Pat(<<K_ArrowFunction>>) \o S_slash,
                        <<"Expression">> \o S_slash \o K_OpenParenToken)
         THEN 8
    ELSE IF EndsWithGap(path, Pat(<<K_ArrowFunction>>) \o S_slash,
                        <<"Expression">> \o S_slash \o K_CloseParenToken)
         THEN 9
    ELSE 0

ArrowVariableExps ==
    <<Pat(<<K_VariableDeclaration, K_ArrowFunction, K_OpenParenToken>>),
      Pat(<<K_VariableDeclaration, K_ArrowFunction, K_ParenthesizedExpression,
            K_OpenBraceToken>>)>>

ArrowVariableOptions == <<-2, -3>>

\* the mutant of ArrowVariable: the declaration is not reclassified
ArrowVariable_NotReclassified(s, stk) == s

\* the inner this.stack.match of the arrow rule
ArrowVariable(s, stk) ==
    LET hit == FirstAlt(astPath(s.info, stk), ArrowVariableExps, 1)
    IN  IF hit = 0 THEN s
        ELSE LET option == ArrowVariableOptions[hit]
                 variableAst == last(stk, option)
                 id == s.info[variableAst].identifier
                 s1 == IF isExport(s, stk, option - 3, <<>>) /\ id # Undefined
                       THEN [s EXCEPT !.info[id].syntax.export = TRUE]
                       ELSE s
             IN  [s1 EXCEPT !.info[variableAst].attention = "arrowVariable"]

Arrow(s, stk, option) ==
    LET ast == last(stk, 0)
        s1 == [ArrowVariable(s, stk) EXCEPT !.info[ast].note = option]
    IN  IF option = "arrow" THEN pushAttention(s1, ast, "arrow")
        ELSE pushAttention(s1, ast, "paren")

ObjectExps ==
    <<Pat(<<K_ObjectLiteralExpression, K_OpenBraceToken>>),
      Pat(<<K_ObjectLiteralExpression, K_CloseBraceToken>>)>>

ObjectOptions == <<"object-open", "object-close">>

Noted(s, stk, option, attention) ==
    LET ast == last(stk, 0)
    IN  pushAttention([s EXCEPT !.info[ast].note = option], ast, attention)

ExportExps ==
    <<Pat(<<K_SyntaxList, K_ExportKeyword>>),
      Pat(<<K_SyntaxList, K_ExportAssignment, K_ExportKeyword>>)>>

ExportOptions == <<-3, -2>>

\* this.stack.slice(option): the references of the last -option entries
Slice(stk, option) ==
    {stk[i] : i \in (IF Len(stk) + option < 0 THEN 1
                     ELSE Len(stk) + option + 1)..Len(stk)}

\* the mutant of Export: only the keyword itself is marked
Export_KeywordOnly(s, stk, node, option) ==
    [s EXCEPT !.info[node].syntax = [export |-> TRUE],
              !.info[last(stk, 0)].note = "export"]

Export(s, stk, node, option) ==
    LET marked == [i \in 1..Len(s.info) |->
                      IF i \in Slice(stk, option)
                      THEN [s.info[i] EXCEPT !.syntax.export = TRUE]
                      ELSE s.info[i]]
    IN  [s EXCEPT !.info = [marked EXCEPT ![node].syntax = [export |-> TRUE],
                                          ![last(stk, 0)].note = "export"]]

BlockExps ==
    <<Pat(<<K_Block, K_OpenBraceToken>>),
      Pat(<<K_Block, K_CloseBraceToken>>)>>

BlockOptions == <<"open", "close">>

CommentExps ==
    <<Pat(<<K_SingleLineCommentTrivia>>), Pat(<<K_MultiLineCommentTrivia>>)>>

\* the number of rule groups in the table handed to this.stack.match
RuleGroups == 20

\* test(reg, reg.exp) of AstStack.match: a pattern of group g matches path
GroupHit(g, path) ==
    CASE g = 1 -> EndsWith(path, Pat(<<K_ImportDeclaration>>))
      [] g = 2 -> FirstAlt(path, ImportIdExps, 1) # 0
      [] g = 3 -> EndsWith(path, Pat(<<K_ImportDeclaration, K_StringLiteral>>))
      [] g = 4 -> EndsWith(path, Pat(<<K_VariableDeclaration, K_Identifier>>))
      [] g = 5 -> Includes(path, Pat(<<K_ClassDeclaration, K_Identifier>>))
      [] g = 6 -> EndsWith(path, Pat(<<K_FunctionDeclaration, K_Identifier>>))
      [] g = 7 -> EndsWith(path, Pat(<<K_CallExpression>>))
      [] g = 8 -> FirstAlt(path, CalleeExps, 1) # 0
      [] g = 9 -> FirstAlt(path, ReturnExps, 1) # 0
      [] g = 10 -> FirstAlt(path, ArrowReturnExps, 1) # 0
      [] g = 11 -> FirstAlt(path, JsxExps, 1) # 0
      [] g = 12 -> FirstAlt(path, PropertyExps, 1) # 0
      [] g = 13 -> EndsWith(path, Pat(<<K_Parameter, K_Identifier>>))
      [] g = 14 -> EndsWith(path, Pat(<<K_ObjectBindingPattern, K_SyntaxList,
                                        K_BindingElement, K_Identifier>>))
      [] g = 15 -> ArrowHit(path) # 0
      [] g = 16 -> FirstAlt(path, ObjectExps, 1) # 0
      [] g = 17 -> EndsWith(path, Pat(<<K_PropertyAssignment, K_Identifier>>))
      [] g = 18 -> FirstAlt(path, ExportExps, 1) # 0
      [] g = 19 -> FirstAlt(path, BlockExps, 1) # 0
      [] g = 20 -> FirstAlt(path, CommentExps, 1) # 0

\* reg.match(option, reg) of group g, with the option of the first
\* alternative of the group that matches path
GroupAct(g, s, stk, node, path) ==
    CASE g = 1 -> pushAttention(s, last(stk, 0), "import")
      [] g = 2 -> ImportId(s, stk)
      [] g = 3 -> ImportPath(s, stk)
      [] g = 4 -> VariableName(s, stk)
      [] g = 5 -> pushAttention(s, last(stk, 0), "class")
      [] g = 6 -> FunctionName(s, stk)
      [] g = 7 -> Call(s, stk)
      [] g = 8 -> CalleeChain(s, stk, node,
                              CalleeOptions[FirstAlt(path, CalleeExps, 1)])
      [] g = 9 -> Return_(s, stk, ReturnOptions[FirstAlt(path, ReturnExps, 1)])
      [] g = 10 -> ArrowReturn(s, stk,
                       ArrowReturnOptions[FirstAlt(path, ArrowReturnExps, 1)])
      [] g = 11 -> Jsx(s, stk, JsxOptions[FirstAlt(path, JsxExps, 1)])
      [] g = 12 -> Property(s, stk,
                            PropertyOptions[FirstAlt(path, PropertyExps, 1)])
      [] g = 13 -> Parameter(s, stk)
      [] g = 14 -> BindingParameter(s, stk, -4)
      [] g = 15 -> Arrow(s, stk, ArrowOptions[ArrowHit(path)])
      [] g = 16 -> Noted(s, stk, ObjectOptions[FirstAlt(path, ObjectExps, 1)],
                         "object")
      [] g = 17 -> Noted(s, stk, "object-prop", "property")
      [] g = 18 -> Export(s, stk, node,
                          ExportOptions[FirstAlt(path, ExportExps, 1)])
      [] g = 19 -> Noted(s, stk, BlockOptions[FirstAlt(path, BlockExps, 1)],
                         "block")
      [] g = 20 -> pushAttention(s, last(stk, 0), "comment")

\* regs.some((reg) => test(reg, reg.exp)): the groups are tried in the
\* order of the table, from group g on; the first one that matches acts
\* and ends the search
RECURSIVE SomeGroup(_, _, _, _, _)
SomeGroup(g, s, stk, node, path) ==
    IF g > RuleGroups THEN s
    ELSE IF GroupHit(g, path) THEN GroupAct(g, s, stk, node, path)
    ELSE SomeGroup(g + 1, s, stk, node, path)

\* regs.forEach in the place of regs.some: a match does not end the search
RECURSIVE EveryGroup(_, _, _, _, _)
EveryGroup(g, s, stk, node, path) ==
    IF g > RuleGroups THEN s
    ELSE IF GroupHit(g, path)
         THEN EveryGroup(g + 1, GroupAct(g, s, stk, node, path), stk, node,
                         path)
    ELSE EveryGroup(g + 1, s, stk, node, path)

\* the mutant of match: every group that matches acts
match_EveryGroup(s, stk, node) ==
    EveryGroup(1, s, stk, node, astPath(s.info, stk))

\* this.stack.match([...]) of traverse
match(s, stk, node) == SomeGroup(1, s, stk, node, astPath(s.info, stk))

-----------------------------------------------------------------------------
(* The per-file body of main of ts-component.ts: flatten, walk, report.    *)
(* A frame of frames is one activation of Parser.traverse: node is its     *)
(* local variable node, at is "head" (at the loop test), "advance" (the    *)
(* rule table was applied) or "called" (inside the recursive call).        *)

\* the mutant of isEnd: the end is announced one record early
isEnd_OneEarly == ptr + 1 >= Len(lineInfo)

\* Parser.isEnd
isEnd == ptr >= Len(lineInfo)

TopFrame == frames[Len(frames)]

Pop(seq) == SubSeq(seq, 1, Len(seq) - 1)

\* the frames after the running activation returned
Returned == Pop(frames)

AtHead == ppc = "traverse" /\ TopFrame.at = "head"
AtAdvance == ppc = "traverse" /\ TopFrame.at = "advance"
AtCalled == ppc = "traverse" /\ TopFrame.at = "called"

\* lineInfo of main: scanAllChildren(lineInfo, sourceFile, -1), initAstNode
Flatten ==
    /\ ppc = "idle"
    /\ tree # <<>>
    /\ LET flat == scanAllChildren(tree, 1, -1, 0)
       IN  lineInfo' = [i \in 1..Len(flat) |-> initAstNode(i - 1, flat[i])]
    /\ ppc' = "parser"
    /\ UNCHANGED <<tree, ptr, astStack, frames, attentions, tested, nodes>>
    /\ UNCHANGED <<files, unreadable, baseDir, scanVars, rq, rr,
                   componentVars, csvVars, treeVars>>

\* const topNode = parser.next(); parser.traverse(topNode);
Start ==
    /\ ppc = "parser"
    /\ ptr' = ptr + 1
    /\ astStack' = Append(astStack, ptr + 1)
    /\ frames' = <<[node |-> ptr + 1, at |-> "head"]>>
    /\ ppc' = "traverse"
    /\ UNCHANGED <<tree, lineInfo, attentions, tested, nodes>>
    /\ UNCHANGED <<files, unreadable, baseDir, scanVars, rq, rr,
                   componentVars, csvVars, treeVars>>

\* while (!this.isEnd()) fails: traverse returns
LoopExit ==
    /\ AtHead
    /\ isEnd
    /\ frames' = Returned
    /\ ppc' = IF Returned = <<>> THEN "walked" ELSE ppc
    /\ UNCHANGED <<tree, lineInfo, ptr, astStack, attentions, tested, nodes>>
    /\ UNCHANGED <<files, unreadable, baseDir, scanVars, rq, rr,
                   componentVars, csvVars, treeVars>>

\* the mutant of Match: the rule table is not applied to a record that has
\* no children
Match_SkipTerminals ==
    /\ AtHead
    /\ ~isEnd
    /\ \E s \in {IF lineInfo[last(astStack, 0)].hasNodes
                  THEN match([info |-> lineInfo, att |-> attentions,
                              thrown |-> FALSE], astStack, TopFrame.node)
                  ELSE [info |-> lineInfo, att |-> attentions,
                        thrown |-> FALSE]} :
           /\ lineInfo' = s.info
           /\ attentions' = s.att
           /\ ppc' = IF s.thrown THEN "thrown" ELSE ppc
    /\ tested' = IF lineInfo[last(astStack, 0)].hasNodes
                 THEN Append(tested, last(astStack, 0)) ELSE tested
    /\ frames' = [frames EXCEPT ![Len(frames)].at = "advance"]
    /\ UNCHANGED <<tree, ptr, astStack, nodes>>
    /\ UNCHANGED <<files, unreadable, baseDir, scanVars, rq, rr,
                   componentVars, csvVars, treeVars>>

\* this.stack.match([...]) at the head of the loop body
Match ==
    /\ AtHead
    /\ ~isEnd
    /\ IF Undefined \in Range(astStack)
       THEN /\ ppc' = "thrown"
            /\ UNCHANGED <<lineInfo, attentions>>
       ELSE \E s \in {match([info |-> lineInfo, att |-> attentions,
                              thrown |-> FALSE], astStack, TopFrame.node)} :
                /\ lineInfo' = s.info
                /\ attentions' = s.att
                /\ ppc' = IF s.thrown THEN "thrown" ELSE ppc
    /\ tested' = Append(tested, last(astStack, 0))
    /\ frames' = [frames EXCEPT ![Len(frames)].at = "advance"]
    /\ UNCHANGED <<tree, ptr, astStack, nodes>>
    /\ UNCHANGED <<files, unreadable, baseDir, scanVars, rq, rr,
                   componentVars, csvVars, treeVars>>

\* next = this.next(), read before the cursor moves
NextRecord == lineInfo[ptr + 1]

\* the mutant of Break: the stack is not cut back
Break_NoSplice ==
    /\ AtAdvance
    /\ NextRecord.level < lineInfo[TopFrame.node].level
    /\ frames' = Returned
    /\ ppc' = IF Returned = <<>> THEN "walked" ELSE ppc
    /\ UNCHANGED <<tree, lineInfo, ptr, astStack, attentions, tested, nodes>>
    /\ UNCHANGED <<files, unreadable, baseDir, scanVars, rq, rr,
                   componentVars, csvVars, treeVars>>

\* next.level < node.level: splice the stack, step the cursor back, break
Break ==
    /\ AtAdvance
    /\ NextRecord.level < lineInfo[TopFrame.node].level
    /\ astStack' = SubSeq(astStack, 1, Min(NextRecord.level + 1, Len(astStack)))
    /\ frames' = Returned
    /\ ppc' = IF Returned = <<>> THEN "walked" ELSE ppc
    /\ UNCHANGED <<tree, lineInfo, ptr, attentions, tested, nodes>>
    /\ UNCHANGED <<files, unreadable, baseDir, scanVars, rq, rr,
                   componentVars, csvVars, treeVars>>

\* node.level < next.level: this.traverse(next)
Descend ==
    /\ AtAdvance
    /\ lineInfo[TopFrame.node].level < NextRecord.level
    /\ ptr' = ptr + 1
    /\ astStack' = Append(astStack, ptr + 1)
    /\ frames' = Append([frames EXCEPT ![Len(frames)].at = "called"],
                        [node |-> ptr + 1, at |-> "head"])
    /\ UNCHANGED <<tree, lineInfo, attentions, tested, ppc, nodes>>
    /\ UNCHANGED <<files, unreadable, baseDir, scanVars, rq, rr,
                   componentVars, csvVars, treeVars>>

\* the mutant of Sibling: a record of the same level ends the activation,
\* as a record of a lower level does
Sibling_Returns ==
    /\ AtAdvance
    /\ lineInfo[TopFrame.node].level = NextRecord.level
    /\ astStack' = SubSeq(astStack, 1, Min(NextRecord.level + 1, Len(astStack)))
    /\ frames' = Returned
    /\ ppc' = IF Returned = <<>> THEN "walked" ELSE ppc
    /\ UNCHANGED <<tree, lineInfo, ptr, attentions, tested, nodes>>
    /\ UNCHANGED <<files, unreadable, baseDir, scanVars, rq, rr,
                   componentVars, csvVars, treeVars>>

\* the same level: stack.pop(); stack.push(next); node = next
Sibling ==
    /\ AtAdvance
    /\ lineInfo[TopFrame.node].level = NextRecord.level
    /\ ptr' = ptr + 1
    /\ astStack' = Append(Pop(astStack), ptr + 1)
    /\ frames' = [frames EXCEPT ![Len(frames)] =
                                    [node |-> ptr + 1, at |-> "head"]]
    /\ UNCHANGED <<tree, lineInfo, attentions, tested, ppc, nodes>>
    /\ UNCHANGED <<files, unreadable, baseDir, scanVars, rq, rr,
                   componentVars, csvVars, treeVars>>

\* after this.traverse(next) returned: next = this.next(); pop; push
AfterCall ==
    /\ AtCalled
    /\ LET next == IF ptr < Len(lineInfo) THEN ptr + 1 ELSE Undefined
       IN  /\ astStack' = Append(Pop(astStack), next)
           /\ frames' = [frames EXCEPT ![Len(frames)] =
                                           [node |-> next, at |-> "head"]]
    /\ ptr' = ptr + 1
    /\ UNCHANGED <<tree, lineInfo, attentions, tested, ppc, nodes>>
    /\ UNCHANGED <<files, unreadable, baseDir, scanVars, rq, rr,
                   componentVars, csvVars, treeVars>>

\* parser.attentions.filter(removeBlankLine)
removeBlankLine(info, att) == SelectSeq(att, LAMBDA a : info[a].text # <<>>)

\* Array.prototype.sort(sortWithIndex), a stable sort: insert one reference
RECURSIVE InsertByIndex(_, _, _)
InsertByIndex(info, sorted, a) ==
    IF sorted = <<>> THEN <<a>>
    ELSE IF info[sorted[Len(sorted)]].index - info[a].index <= 0
         THEN Append(sorted, a)
    ELSE Append(InsertByIndex(info, Pop(sorted), a), sorted[Len(sorted)])

RECURSIVE sortWithIndex(_, _, _)
sortWithIndex(info, att, sorted) ==
    IF att = <<>> THEN sorted
    ELSE sortWithIndex(info, Tail(att), InsertByIndex(info, sorted, Head(att)))

\* const attentions = parser.attentions.filter(...).sort(...)
Report ==
    /\ ppc = "walked"
    /\ nodes' = sortWithIndex(lineInfo, removeBlankLine(lineInfo, attentions),
                              <<>>)
    /\ ppc' = "reported"
    /\ UNCHANGED <<tree, lineInfo, ptr, astStack, frames, attentions, tested>>
    /\ UNCHANGED <<files, unreadable, baseDir, scanVars, rq, rr,
                   componentVars, csvVars, treeVars>>

\* note.indexOf('open') >= 0
HasOpen(note) ==
    note \in {"open", "object-open", "jsx-open", "jsx-open-prop",
              "jsx-open-return", "jsx-open-return-fragment"}

\* note.indexOf('close') >= 0
HasClose(note) ==
    note \in {"close", "object-close", "jsx-close", "jsx-close-prop",
              "jsx-close-fragment"}

\* the node ExportCSV.getCsv writes the row of: the identifier of an arrow
\* variable, the node itself otherwise; Undefined gives no row
CsvNode(info, node) ==
    IF node = Undefined THEN Undefined
    ELSE IF info[node].attention = "arrowVariable" THEN info[node].identifier
    ELSE node

\* this.level of ExportCSV after getCsv was called for the first k nodes of
\* list, from level 0
RECURSIVE getCsvLevel(_, _, _)
getCsvLevel(info, list, k) ==
    IF k = 0 THEN 0
    ELSE LET node == CsvNode(info, list[k])
             before == getCsvLevel(info, list, k - 1)
         IN  IF node = Undefined THEN before
             ELSE before + (IF HasOpen(info[node].note) THEN 1 ELSE 0)
                         - (IF HasClose(info[node].note) THEN 1 ELSE 0)

ParserInit ==
    /\ files = SrcProject
    /\ unreadable = {}
    /\ baseDir = EMPTY
    /\ srcPath = F_src_index
    /\ pc = "idle"
    /\ stack = <<>>
    /\ cachedFiles = <<>>
    /\ reads = <<>>
    /\ errlog = <<>>
    /\ result = <<>>
    /\ csv = <<>>
    /\ calls = 0
    /\ invocations = 0
    /\ rq = NoRequest
    /\ rr = NoAnswer
    /\ ComponentIdle
    /\ TreeIdle
    /\ CsvIdle
    /\ tree \in Sources
    /\ lineInfo = <<>>
    /\ ptr = 0
    /\ astStack = <<>>
    /\ frames = <<>>
    /\ attentions = <<>>
    /\ tested = <<>>
    /\ ppc = "idle"
    /\ nodes = <<>>

ParserNext ==
    \/ Flatten
    \/ Start
    \/ LoopExit
    \/ Match
    \/ Break
    \/ Descend
    \/ Sibling
    \/ AfterCall
    \/ Report

ParserSpec == ParserInit /\ [][ParserNext]_vars

-----------------------------------------------------------------------------
(* Properties of the walk of Parser.traverse, checked under ParserSpec.    *)

\* the rule table is about to be applied: the loop test passed
Testing == AtHead /\ ~isEnd

\* the nearest record at or before position p whose level is lv; 0 if none
RECURSIVE NearestAtLevel(_, _, _)
NearestAtLevel(info, p, lv) ==
    IF p < 1 THEN 0
    ELSE IF info[p].level = lv THEN p
    ELSE NearestAtLevel(info, p - 1, lv)

\* C11: whenever traverse applies the rule table, the ancestor stack is the
\* path from the root to the current record: its length is the depth of the
\* current record plus one, its top is the current record, and entry i has
\* depth i and is the nearest preceding record of that depth.
C11_StackIsRootPath ==
    Testing =>
        /\ Undefined \notin Range(astStack)
        /\ Len(astStack) = lineInfo[ptr].level + 1
        /\ last(astStack, 0) = ptr
        /\ \A i \in 1..Len(astStack) :
              /\ lineInfo[astStack[i]].level = i - 1
              /\ astStack[i] = NearestAtLevel(lineInfo, ptr, i - 1)

\* a test right after a return over two or more levels, below the root
C11_Witness ==
    /\ Testing
    /\ ptr > 1
    /\ lineInfo[ptr].level + 2 <= lineInfo[ptr - 1].level
    /\ Len(astStack) >= 2
    /\ C11_StackIsRootPath

\* the walk is over
Walked == ppc \in {"walked", "reported"}

\* the records of a kind and text
RecordsOf(kind, text) ==
    {i \in 1..Len(lineInfo) :
        lineInfo[i].kind = kind /\ lineInfo[i].text = text}

\* C12: for `export const Foo = () => <div />;`, after the walk the
\* identifier Foo is tagged as a variable with its export flag true, its
\* VariableDeclaration is reclassified as an arrow variable, and the
\* identifier div of the self-closing element is tagged component with the
\* note jsx-self.
C12_FooAndDiv ==
    (Walked /\ tree = FooSource) =>
        /\ \E foo \in RecordsOf(K_Identifier, L_Foo) :
              /\ lineInfo[foo].attention = "var"
              /\ lineInfo[foo].syntax.export
              /\ foo \in Range(attentions)
              /\ \E decl \in 1..Len(lineInfo) :
                    /\ lineInfo[decl].kind = K_VariableDeclaration
                    /\ lineInfo[decl].identifier = foo
                    /\ lineInfo[decl].attention = "arrowVariable"
        /\ \E div \in RecordsOf(K_Identifier, L_div) :
              /\ lineInfo[div].attention = "component"
              /\ lineInfo[div].note = "jsx-self"
              /\ div \in Range(attentions)

\* the report of that source lists Foo and div
C12_Witness ==
    /\ ppc = "reported"
    /\ tree = FooSource
    /\ C12_FooAndDiv
    /\ \E foo \in RecordsOf(K_Identifier, L_Foo), div \in RecordsOf(K_Identifier, L_div) :
          {foo, div} \subseteq Range(nodes)

\* the flat sequence as the flattener produced it, before the walk
Flattened == scanAllChildren(tree, 1, -1, 0)

\* the call records of the flat sequence; the record after a call record is
\* its callee, the first child of the CallExpression
CallRecords == {i \in 1..Len(lineInfo) : lineInfo[i].kind = K_CallExpression}

\* C13: after the walk the text rebuilt on a CallExpression record is the
\* whole dotted callee chain in source order, every identifier and every dot
\* of it and nothing else (a.b.c for the call a.b.c()), for a chain of one or
\* more dotted names.
C13_CallTextIsCalleeChain ==
    Walked =>
        \A i \in CallRecords : lineInfo[i].text = Flattened[i + 1].text

\* the parent of record j in the flat sequence; 0 for a record of depth 0
ParentRecord(j) ==
    IF lineInfo[j].level = 0 THEN 0
    ELSE NearestAtLevel(lineInfo, j - 1, lineInfo[j].level - 1)

\* the tokens the call chain rule appends to the call record i
CalleeTokens(i) ==
    {j \in 1..Len(lineInfo) :
        \/ /\ lineInfo[j].kind = K_Identifier
           /\ ParentRecord(j) = i
        \/ /\ lineInfo[j].kind \in {K_Identifier, K_DotToken, K_QuestionDotToken}
           /\ ParentRecord(j) # 0
           /\ lineInfo[ParentRecord(j)].kind = K_PropertyAccessExpression
           /\ ParentRecord(ParentRecord(j)) = i}

SetMax(S) == CHOOSE x \in S : \A y \in S : y <= x

\* the sort key the walk leaves on record i
KeyAfterWalk(i) ==
    IF lineInfo[i].kind = K_CallExpression /\ CalleeTokens(i) # {}
    THEN SetMax(CalleeTokens(i)) - 1
    ELSE i - 1

\* the position of reference a in the sequence seq of distinct references
PositionIn(seq, a) == CHOOSE k \in 1..Len(seq) : seq[k] = a

\* the report lists exactly the tagged records whose text is not empty
ReportIsFiltered ==
    /\ Range(nodes) = {a \in Range(attentions) : lineInfo[a].text # <<>>}
    /\ \A k, l \in 1..Len(nodes) : nodes[k] = nodes[l] => k = l

\* C14 as stated: the report lists exactly the tagged records whose text is
\* not empty, in the order of their positions in the flat sequence, and the
\* sort key of a record is still its position after the walk.
C14_ReportInOriginalOrder ==
    ppc = "reported" =>
        /\ ReportIsFiltered
        /\ \A k, l \in 1..Len(nodes) : k < l => nodes[k] < nodes[l]
        /\ \A i \in 1..Len(lineInfo) : lineInfo[i].index = i - 1

\* C14 amended: the report lists exactly the tagged records whose text is
\* not empty, in ascending order of the index field, records of equal index
\* in the order they were tagged; the index of a record is its position in
\* the flat sequence, except that a call record carries the position of the
\* last callee token the call chain rule appended to it.
C14_ReportInIndexOrder ==
    ppc = "reported" =>
        /\ ReportIsFiltered
        /\ \A i \in 1..Len(lineInfo) : lineInfo[i].index = KeyAfterWalk(i)
        /\ \A k, l \in 1..Len(nodes) : k < l =>
              \/ lineInfo[nodes[k]].index < lineInfo[nodes[l]].index
              \/ /\ lineInfo[nodes[k]].index = lineInfo[nodes[l]].index
                 /\ PositionIn(attentions, nodes[k])
                        < PositionIn(attentions, nodes[l])

\* a report in which a call is listed after a tagged record that follows it
\* in the flat sequence
C14_Witness ==
    /\ ppc = "reported"
    /\ C14_ReportInIndexOrder
    /\ \E k, l \in 1..Len(nodes) :
          /\ k < l
          /\ nodes[k] > nodes[l]
          /\ lineInfo[nodes[l]].kind = K_CallExpression

-----------------------------------------------------------------------------
(* Properties of the flattener, checked under ParserSpec on the flat       *)
(* sequence that Flatten built (levels and kinds are not changed later).   *)

\* the depth of node n in the tree t: the number of its ancestors
RECURSIVE Depth(_, _)
Depth(t, n) == IF t.par[n] = 0 THEN 0 ELSE 1 + Depth(t, t.par[n])

\* the nodes of the subtrees rooted at the nodes ns, in pre-order
RECURSIVE PreOrder(_, _)
PreOrder(t, ns) ==
    IF ns = <<>> THEN <<>>
    ELSE <<Head(ns)>> \o PreOrder(t, getChildren(t, Head(ns)))
         \o PreOrder(t, Tail(ns))

IsCommentRecord(r) ==
    r.kind \in {K_SingleLineCommentTrivia, K_MultiLineCommentTrivia}

\* the positions of the records that stand for a node of the tree
NodeRecords ==
    SelectSeq(Iota(Len(lineInfo)), LAMBDA j : ~IsCommentRecord(lineInfo[j]))

HasFlat == ppc # "idle"

\* C15: scanAllChildren emits the tree in pre-order: the root record has
\* depth 0, the record of every child has the depth of its parent plus 1,
\* children follow their parent in source order, and the depth of a record
\* is at most 1 greater than the depth of the record right before it.
C15_PreOrderDepths ==
    HasFlat =>
        /\ lineInfo[1].level = 0
        /\ Len(NodeRecords) = Len(tree.par)
        /\ \A k \in 1..Len(NodeRecords) :
              /\ lineInfo[NodeRecords[k]].kind
                     = tree.kind[PreOrder(tree, <<1>>)[k]]
              /\ lineInfo[NodeRecords[k]].level
                     = Depth(tree, PreOrder(tree, <<1>>)[k])
        /\ \A j \in 1..Len(lineInfo) :
              /\ j > 1 => lineInfo[j].level <= lineInfo[j - 1].level + 1
              /\ lineInfo[j].level > 0 =>
                    /\ ParentRecord(j) # 0
                    /\ lineInfo[ParentRecord(j)].hasNodes
              /\ IsCommentRecord(lineInfo[j]) =>
                    /\ j < Len(lineInfo)
                    /\ lineInfo[j + 1].level = lineInfo[j].level

\* a flat sequence of a tree with a node two levels below the root whose
\* next sibling subtree follows it, and with a comment record
C15_Witness ==
    /\ HasFlat
    /\ C15_PreOrderDepths
    /\ \E j \in 2..Len(lineInfo) :
          /\ lineInfo[j - 1].level >= 2
          /\ lineInfo[j].level < lineInfo[j - 1].level
    /\ \E j \in 1..Len(lineInfo) : IsCommentRecord(lineInfo[j])

\* the tokens and comments of the source of tree t, in source order: the
\* comments in front of a node, then its lexeme if it is a token; a doc
\* comment node repeats a comment of the source and adds nothing
RECURSIVE SourceTokens(_, _)
SourceTokens(t, ns) ==
    IF ns = <<>> THEN <<>>
    ELSE (IF IsJSDoc(t, Head(ns)) THEN <<>>
          ELSE CommentTexts(t.lead[Head(ns)])
               \o (IF getChildren(t, Head(ns)) = <<>> THEN t.lex[Head(ns)]
                   ELSE SourceTokens(t, getChildren(t, Head(ns)))))
         \o SourceTokens(t, Tail(ns))

\* the texts of the terminal records of a flat sequence, concatenated
RECURSIVE TerminalText(_)
TerminalText(info) ==
    IF info = <<>> THEN <<>>
    ELSE (IF Head(info).element THEN Head(info).text ELSE <<>>)
         \o TerminalText(Tail(info))

\* C16: concatenating, in sequence order, the text of every terminal record
\* of the flat sequence (comment records included) gives the source: every
\* token and every comment exactly once, in source order.
C16_TerminalsReconstructSource ==
    ppc = "parser" => TerminalText(lineInfo) = SourceTokens(tree, <<1>>)

\* the sources whose walk asks nothing of the module resolver: no import
\* specifier to look up
ParserLiveInit == ParserInit /\ SourcePathOf(tree) = EMPTY

\* the walk under the scheduling of a single thread: a step that can be
\* taken is taken
ParserLive ==
    ParserLiveInit /\ [][ParserNext]_vars /\ WF_vars(ParserNext)

\* C19: for every flat sequence of the flattener Parser.traverse terminates
\* without throwing, with the cursor at or past the end of the sequence and
\* no activation left; records that match no rule are left untagged.
C19_TraverseTerminates ==
    /\ [](ppc # "thrown")
    /\ [](Walked => (ptr >= Len(lineInfo) /\ frames = <<>>))
    /\ [](Walked => \A i \in 1..Len(lineInfo) :
                        (i \notin Range(attentions)
                         /\ lineInfo[i].attention # "arrowVariable")
                            => lineInfo[i].attention = "undefined")
    /\ <>Walked

\* the end of a walk over three or more records none of which matched a rule
C19_Witness ==
    /\ ppc = "walked"
    /\ ptr >= Len(lineInfo)
    /\ Len(lineInfo) >= 3
    /\ attentions = <<>>
    /\ \A i \in 1..Len(lineInfo) : lineInfo[i].attention = "undefined"

\* C20: during one walk every record of the flat sequence, from the first
\* to the last, is tested against the rule table exactly once, in sequence
\* order, while it is the top of the ancestor stack.
C20_EveryRecordTestedOnce ==
    Walked => tested = Iota(Len(lineInfo))

-----------------------------------------------------------------------------
(* Delimited text: parse of src/libs/csv-parser.ts.  Indices count from 1; *)
(* a read past the end of the string gives the value undefined.            *)

RETURN == "\r"

MaxCsvLen == 3

CsvAlphabet == {"a", delim, QUOTE, SPACE, NEWLINE, RETURN}

\* what src[i] gives past the end of the string
NoChar == ""

\* src[i]
CharAt(src, p) == IF p \in 1..Len(src) THEN src[p] ELSE NoChar

IsLineBreak(c) == c = NEWLINE \/ c = RETURN

\* the text that `val += src[i]` appends: undefined is spelled out
Appended(c) ==
    IF c = NoChar THEN <<"u", "n", "d", "e", "f", "i", "n", "e", "d">>
    ELSE <<c>>

\* { value: val, quat }
CsvItem(val, quat) == [value |-> val, quat |-> quat]

\* the index after a line break at p: a second line-break character right
\* after it is skipped
AfterLineBreak(src, p) == IF IsLineBreak(CharAt(src, p + 1)) THEN p + 2 ELSE p + 1

RECURSIVE ParseOuter(_, _, _, _, _, _)
RECURSIVE ParseQuoted(_, _, _, _, _)
RECURSIVE ParseBare(_, _, _, _, _, _)

\* `i++; } while (i < src.length);` of the outer loop, and the statements
\* after it
ParseNext(src, p, row, col, val, quat) ==
    IF p <= Len(src) THEN ParseOuter(src, p, row, col, val, quat)
    ELSE Append(row, Append(col, CsvItem(val, quat)))

\* the body of the outer loop
ParseOuter(src, p, row, col, val, quat) ==
    IF CharAt(src, p) = delim
    THEN ParseNext(src, p + 1, row, Append(col, CsvItem(val, quat)),
                   EMPTY, EMPTY)
    ELSE IF IsLineBreak(CharAt(src, p))
    THEN ParseNext(src, AfterLineBreak(src, p),
                   Append(row, Append(col, CsvItem(val, quat))), <<>>,
                   EMPTY, EMPTY)
    ELSE IF CharAt(src, p) = QUOTE
    THEN ParseQuoted(src, p + 1, row, col, val)
    ELSE ParseBare(src, p, row, col, val, quat)

\* the body of the loop over a quoted field
ParseQuoted(src, p, row, col, val) ==
    IF CharAt(src, p) = QUOTE /\ CharAt(src, p + 1) = QUOTE /\ p < Len(src)
    THEN IF p + 2 <= Len(src)
         THEN ParseQuoted(src, p + 2, row, col, val \o <<QUOTE>>)
         ELSE ParseNext(src, p + 3, row, col, val \o <<QUOTE>>, <<QUOTE>>)
    ELSE IF CharAt(src, p) = QUOTE
    THEN ParseNext(src, p + 1, row, col, val, <<QUOTE>>)
    ELSE IF p + 1 <= Len(src)
    THEN ParseQuoted(src, p + 1, row, col, val \o Appended(CharAt(src, p)))
    ELSE ParseNext(src, p + 2, row, col, val \o Appended(CharAt(src, p)),
                   <<QUOTE>>)

\* the body of the loop over an unquoted field
ParseBare(src, p, row, col, val, quat) ==
    IF CharAt(src, p) = delim
    THEN ParseNext(src, p + 1, row, Append(col, CsvItem(val, quat)),
                   EMPTY, EMPTY)
    ELSE IF IsLineBreak(CharAt(src, p))
    THEN ParseNext(src, AfterLineBreak(src, p),
                   Append(row, Append(col, CsvItem(val, quat))), <<>>,
                   EMPTY, EMPTY)
    ELSE IF p + 1 <= Len(src)
    THEN ParseBare(src, p + 1, row, col, val \o <<src[p]>>, quat)
    ELSE ParseNext(src, p + 2, row, col, val \o <<src[p]>>, quat)

\* CSV.parse(src)
parse(src) ==
    IF Len(src) <= 0 THEN <<<<CsvItem(EMPTY, EMPTY)>>>>
    ELSE ParseOuter(src, 1, <<>>, <<>>, EMPTY, EMPTY)

\* the strings over CsvAlphabet of length n
StringsOfLength(n) == [1..n -> CsvAlphabet]

CsvInputs == UNION {StringsOfLength(n) : n \in 0..MaxCsvLen}

\* csvOut holds, in order, parse(csvSrc), the text stringify makes of it,
\* and the parse of that text
CsvParse ==
    /\ csvOut = <<>>
    /\ csvOut' = <<parse(csvSrc)>>
    /\ UNCHANGED <<csvSrc, files, unreadable, baseDir, scanVars, rq, rr,
                   componentVars, parserVars, treeVars>>

CsvStringify ==
    /\ Len(csvOut) = 1
    /\ csvOut' = Append(csvOut, stringify(csvOut[1]))
    /\ UNCHANGED <<csvSrc, files, unreadable, baseDir, scanVars, rq, rr,
                   componentVars, parserVars, treeVars>>

CsvReparse ==
    /\ Len(csvOut) = 2
    /\ csvOut' = Append(csvOut, parse(csvOut[2]))
    /\ UNCHANGED <<csvSrc, files, unreadable, baseDir, scanVars, rq, rr,
                   componentVars, parserVars, treeVars>>

CsvInit ==
    /\ files = SrcProject
    /\ unreadable = {}
    /\ baseDir = EMPTY
    /\ srcPath = F_src_index
    /\ pc = "idle"
    /\ stack = <<>>
    /\ cachedFiles = <<>>
    /\ reads = <<>>
    /\ errlog = <<>>
    /\ result = <<>>
    /\ csv = <<>>
    /\ calls = 0
    /\ invocations = 0
    /\ rq = NoRequest
    /\ rr = NoAnswer
    /\ ComponentIdle
    /\ TreeIdle
    /\ ParserIdle
    /\ csvSrc \in CsvInputs
    /\ csvOut = <<>>

CsvNext ==
    \/ CsvParse
    \/ CsvStringify
    \/ CsvReparse

CsvSpec == CsvInit /\ [][CsvNext]_vars

\* the values of the fields of parsed rows, row by row
FieldValues(rows) ==
    [r \in 1..Len(rows) |-> [c \in 1..Len(rows[r]) |-> rows[r][c].value]]

\* C17: for every input s, parsing stringify(parse(s)) again yields the same
\* rows with the same field values as parse(s), and a field that was quoted
\* in s is quoted in the output as well.
C17_RoundTrip ==
    Len(csvOut) = 3 =>
        /\ FieldValues(csvOut[3]) = FieldValues(csvOut[1])
        /\ \A r \in 1..Len(csvOut[1]) : \A c \in 1..Len(csvOut[1][r]) :
              csvOut[1][r][c].quat # EMPTY =>
                  /\ r <= Len(csvOut[3])
                  /\ c <= Len(csvOut[3][r])
                  /\ csvOut[3][r][c].quat # EMPTY

-----------------------------------------------------------------------------
(* Properties of main of ts-component.ts, checked under Spec.              *)

\* the run of ts-component is over, one way or the other
ComponentOver == pc \in {"aborted", "finished"}

\* the sources the scan listed
Listed == {result[i].source : i \in 1..Len(result)}

\* C18: a failure on one file never aborts the whole run: when a file listed
\* by the scan cannot be read by the structural scan, the other listed files
\* are still processed and their output is emitted.
C18_FailureIsConfined ==
    ComponentOver =>
        \A source \in Listed :
            Readable(sourcePathWithBase(source)) => source \in Range(emitted)

-----------------------------------------------------------------------------
(* The cursor advance of Parser.traverse, checked under ParserSpec.        *)

\* the level of the record the running activation stands on
NodeLevel == lineInfo[TopFrame.node].level

\* the running activation returns to the one that called it
FrameReturns == frames' = Returned

\* the running activation stays, and stands on the next record
FrameMovesOn ==
    /\ Len(frames') = Len(frames)
    /\ frames'[Len(frames)] = [node |-> ptr + 1, at |-> "head"]
    /\ SubSeq(frames', 1, Len(frames) - 1) = SubSeq(frames, 1, Len(frames) - 1)

\* C21 as stated: a following record of a depth less than or equal to the
\* depth of the current node ends the current subtree: the running traverse
\* frame returns control to its parent frame and the stack is cut back to
\* that depth.
C21_LessOrEqualReturns ==
    [][(AtAdvance /\ NextRecord.level <= NodeLevel) =>
          /\ FrameReturns
          /\ Len(astStack') = NextRecord.level + 1]_vars

\* C21, amended: in traverse, when the record following the current node
\* has a depth less than the depth of the current node, the stack is cut
\* back to that depth plus one entries, the cursor does not move and the
\* running frame returns to its parent; when it has the same depth, the
\* running frame does not return: it replaces the top of the stack by that
\* record and goes on with it; when it has a greater depth, traverse
\* recurses into it with the record pushed, and when the call returns the
\* calling frame goes on with the record that follows, put in the place of
\* the top of the stack.
C21_CursorAdvance ==
    [][/\ (AtAdvance /\ NextRecord.level < NodeLevel) =>
              /\ FrameReturns
              /\ astStack' = SubSeq(astStack, 1, NextRecord.level + 1)
              /\ ptr' = ptr
       /\ (AtAdvance /\ NextRecord.level = NodeLevel) =>
              /\ FrameMovesOn
              /\ astStack' = Append(Pop(astStack), ptr + 1)
              /\ ptr' = ptr + 1
       /\ (AtAdvance /\ NextRecord.level > NodeLevel) =>
              /\ frames' = Append([frames EXCEPT ![Len(frames)].at = "called"],
                                  [node |-> ptr + 1, at |-> "head"])
              /\ astStack' = Append(astStack, ptr + 1)
              /\ ptr' = ptr + 1
       /\ (AtCalled /\ ptr < Len(lineInfo)) =>
              /\ FrameMovesOn
              /\ astStack' = Append(Pop(astStack), ptr + 1)
              /\ ptr' = ptr + 1]_vars

\* a called activation has returned on a record of a lower level, after a
\* step from a record to its sibling and a step into a child
C21_Witness ==
    /\ AtCalled
    /\ ptr < Len(lineInfo)
    /\ NextRecord.level < lineInfo[ptr].level
    /\ Len(astStack) = NextRecord.level + 1
    /\ \E i \in 1..(Len(tested) - 1) :
          lineInfo[tested[i]].level = lineInfo[tested[i + 1]].level
    /\ \E i \in 1..(Len(tested) - 1) :
          lineInfo[tested[i]].level < lineInfo[tested[i + 1]].level

-----------------------------------------------------------------------------
(* The rule groups of the matcher, checked under ParserSpec.               *)

\* the rule groups with a pattern that the ancestor path satisfies
Hits(path) == {g \in 1..RuleGroups : GroupHit(g, path)}

\* the path of the record that is tested, or was tested last
StackPath == astPath(lineInfo, astStack)

\* the flat sequence and the tagged list as the rule table finds them
Found == [info |-> lineInfo, att |-> attentions, thrown |-> FALSE]

\* the actions of the groups gs applied one after the other, in table order
RECURSIVE ActInOrder(_, _, _)
ActInOrder(gs, s, g) ==
    IF g > RuleGroups THEN s
    ELSE IF g \in gs
         THEN ActInOrder(gs, GroupAct(g, s, astStack, TopFrame.node, StackPath),
                         g + 1)
    ELSE ActInOrder(gs, s, g + 1)

\* the call-chain group and the property-chain group
CallChainGroup == 8
PropertyGroup == 12

\* C22 as stated: when the ancestor path of a node satisfies patterns of two
\* different rule groups, the action of each matching group is applied to
\* the node, in the fixed order of the table.
C22_EveryMatchingGroupActs ==
    [][(Testing /\ Undefined \notin Range(astStack)) =>
          /\ lineInfo' = ActInOrder(Hits(StackPath), Found, 1).info
          /\ attentions' = ActInOrder(Hits(StackPath), Found, 1).att]_vars

\* C22, amended: the rule groups are tried in the fixed order of the table
\* and at most one of them acts on a node: when the ancestor path satisfies
\* patterns of several groups, only the action of the first of them in
\* table order is applied and the later groups are not tried (an identifier
\* under CallExpression/PropertyAccessExpression is appended to the text of
\* the call by the call-chain group, and the property-chain group leaves
\* the text of the property access alone); when it satisfies no pattern the
\* node is left as it is.
C22_FirstMatchingGroupActs ==
    [][(Testing /\ Undefined \notin Range(astStack)) =>
          LET hits == Hits(StackPath)
              first == CHOOSE g \in hits : \A h \in hits : g <= h
          IN  IF hits = {}
              THEN lineInfo' = lineInfo /\ attentions' = attentions
              ELSE /\ lineInfo' =
                         GroupAct(first, Found, astStack, TopFrame.node,
                                  StackPath).info
                   /\ attentions' =
                         GroupAct(first, Found, astStack, TopFrame.node,
                                  StackPath).att
                   /\ ({CallChainGroup, PropertyGroup} \subseteq hits =>
                         /\ first = CallChainGroup
                         /\ lineInfo'[last(astStack, -1)].text
                               = lineInfo[last(astStack, -1)].text)]_vars

\* the rule table was applied to an identifier under CallExpression/
\* PropertyAccessExpression: both groups match, the call has its text and
\* the property access has none
C22_Witness ==
    /\ AtAdvance
    /\ {CallChainGroup, PropertyGroup} \subseteq Hits(StackPath)
    /\ lineInfo[last(astStack, 0)].kind = K_Identifier
    /\ lineInfo[last(astStack, -2)].text = lineInfo[last(astStack, 0)].text
    /\ lineInfo[last(astStack, -1)].text = <<>>

-----------------------------------------------------------------------------
(* The export rule, checked under ParserSpec.                              *)

\* the records with the export flag set
Exported(info) == {i \in 1..Len(info) : info[i].syntax.export}

\* the last n entries of the ancestor stack
LastEntries(n) == {astStack[i] : i \in (Len(astStack) - n + 1)..Len(astStack)}

PlainExport == EndsWith(StackPath, Pat(<<K_SyntaxList, K_ExportKeyword>>))

DefaultExport ==
    EndsWith(StackPath,
             Pat(<<K_SyntaxList, K_ExportAssignment, K_ExportKeyword>>))

\* C23: when an ExportKeyword is matched with a path ending in
\* SyntaxList/ExportKeyword, exactly the last three stack entries (the
\* declaring statement, its modifier list and the keyword) get their export
\* flag set to true; with a path ending in
\* SyntaxList/ExportAssignment/ExportKeyword exactly the last two entries
\* do; the export flag of every other record, on or off the stack, is left
\* unchanged.
C23_ExportMarksStackTail ==
    [][/\ (Testing /\ PlainExport) =>
              /\ Len(astStack) >= 3
              /\ lineInfo[last(astStack, -1)].kind = K_SyntaxList
              /\ Exported(lineInfo') = Exported(lineInfo) \cup LastEntries(3)
       /\ (Testing /\ DefaultExport) =>
              /\ lineInfo[last(astStack, -1)].kind = K_ExportAssignment
              /\ Exported(lineInfo') = Exported(lineInfo) \cup LastEntries(2)]_vars

\* the keyword of `export default a` was matched after the keyword of
\* `export const a = 1`: the assignment and its keyword are marked, the
\* list the assignment lies in is not, and of the first statement the
\* statement, its modifier list and its keyword are marked
C23_Witness ==
    /\ AtAdvance
    /\ DefaultExport
    /\ LastEntries(2) \subseteq Exported(lineInfo)
    /\ last(astStack, -2) \notin Exported(lineInfo)
    /\ \E k \in 1..(ptr - 1) :
          /\ lineInfo[k].kind = K_ExportKeyword
          /\ lineInfo[k].note = "export"
          /\ {k - 2, k - 1, k} \subseteq Exported(lineInfo)
          /\ lineInfo[k - 2].kind = K_VariableStatement
          /\ k - 3 \notin Exported(lineInfo)

-----------------------------------------------------------------------------
(* The JSX rules, checked under ParserSpec.                                *)

\* the records of the opening, closing and self-closing elements
JsxTags ==
    {i \in 1..Len(lineInfo) :
        lineInfo[i].kind \in {K_JsxOpeningElement, K_JsxClosingElement,
                              K_JsxSelfClosingElement}}

\* the record of the tag name of the element i: the identifier, or the
\* property access that holds the dotted name
TagName(i) ==
    CHOOSE j \in 1..Len(lineInfo) :
        /\ ParentRecord(j) = i
        /\ lineInfo[j].kind \in {K_Identifier, K_PropertyAccessExpression}

\* the notes that tell an element of a kind
TagNotes(kind) ==
    IF kind = K_JsxOpeningElement THEN {"jsx-open", "jsx-open-return"}
    ELSE IF kind = K_JsxClosingElement THEN {"jsx-close"}
    ELSE {"jsx-self", "jsx-self-return"}

\* C24: every JSX tag name is reported as one node tagged component: for
\* each opening, closing and self-closing element, wherever it occurs in the
\* file, the tag identifier (or the node that holds the dotted name) is in
\* the tagged list once, tagged component, with a note telling open, close
\* or self-closing, and carries the tag name as its text.
C24_EveryTagIsComponent ==
    Walked =>
        \A i \in JsxTags :
            /\ lineInfo[TagName(i)].attention = "component"
            /\ lineInfo[TagName(i)].note \in TagNotes(lineInfo[i].kind)
            /\ CountIn(attentions, TagName(i)) = 1
            /\ lineInfo[TagName(i)].text = Flattened[TagName(i)].text

-----------------------------------------------------------------------------
(* The leading comments in the flat sequence, checked under ParserSpec.    *)

\* the flat sequence was built and the walk has not begun
JustFlattened == ppc = "parser"

\* what scanAllChildren pushed, without the fields initAstNode adds
Pushed ==
    [i \in 1..Len(lineInfo) |->
        [element |-> lineInfo[i].element, level |-> lineInfo[i].level,
         kind |-> lineInfo[i].kind, text |-> lineInfo[i].text,
         hasNodes |-> lineInfo[i].hasNodes]]

\* the comments in front of node n, each one record at the depth of n
LeadRecords(t, n) ==
    [k \in 1..Len(t.lead[n]) |-> CommentInfo(t.lead[n][k], Depth(t, n))]

\* for the nodes ns: the comments that lead a node, then the node
RECURSIVE CommentsThenNodes(_, _)
CommentsThenNodes(t, ns) ==
    IF ns = <<>> THEN <<>>
    ELSE LeadRecords(t, Head(ns))
         \o <<NodeInfo(t, Head(ns), Depth(t, Head(ns)))>>
         \o CommentsThenNodes(t, Tail(ns))

CommentRecords == {j \in 1..Len(lineInfo) : IsCommentRecord(lineInfo[j])}

-----------------------------------------------------------------------------
(* The indentation counter of the emitter, checked under ParserSpec.       *)

Reported == ppc = "reported"

\* C26: over the reported node list in output order, the indentation
\* counter of the emitter (incremented on each node whose note contains
\* "open", decremented on each node whose note contains "close") never
\* becomes negative and is back at 0 after the last node.
C26_OpenCloseBalanced ==
    Reported =>
        /\ \A k \in 0..Len(nodes) : getCsvLevel(lineInfo, nodes, k) >= 0
        /\ getCsvLevel(lineInfo, nodes, Len(nodes)) = 0

-----------------------------------------------------------------------------
(* The memo table across calls of scanAsync, checked under Spec.           *)

\* no entry of the memo table is changed or removed by the step
MemoOnlyGrows ==
    /\ Len(cachedFiles') >= Len(cachedFiles)
    /\ SubSeq(cachedFiles', 1, Len(cachedFiles)) = cachedFiles

\* a call of scanAsync resolves: its result holds the edges of the result
\* of the call before it, in their places, and the new ones after them
ResultOnlyGrows ==
    (pc = "scanning" /\ pc' = "done") =>
        /\ Len(result') >= Len(result)
        /\ SubSeq(result', 1, Len(result)) = result

\* the paths recorded by the calls of scanAsync that have resolved: the
\* result of the last of them has one edge per entry the table had then
EarlierKeys == {cachedFiles[i].src : i \in 1..Len(result)}

\* two spellings of the path of one file
SameFile(p, q) == PathNormalize(p) = PathNormalize(q)

\* the step reads a file, and no earlier call has scanned that file
ReadsOnlyNewFiles ==
    (reads' # reads) =>
        \A k \in EarlierKeys : ~SameFile(k, reads'[Len(reads')])

\* C27: the memo table of the scanner is append-only: an edge recorded for
\* a path is never modified or removed, so every later call of scanAsync in
\* the same process returns all edges recorded by earlier calls in addition
\* to the newly discovered ones, and a file scanned by an earlier call is
\* not read again.
C27_MemoAppendOnly ==
    [][MemoOnlyGrows /\ ResultOnlyGrows /\ ReadsOnlyNewFiles]_vars

-----------------------------------------------------------------------------
(* The list of tagged nodes, checked under ParserSpec.                     *)

\* AttentionKind.none, or no attention at all
NoTag == {"none", "undefined"}

\* C28: no node is recorded twice in the list of tagged nodes: at any point
\* of a walk and after it, each record of the flat sequence occurs at most
\* once in attentions, and every entry of attentions is a record with a tag
\* other than none.
C28_TaggedOnce ==
    /\ \A i, j \in 1..Len(attentions) :
          attentions[i] = attentions[j] => i = j
    /\ \A i \in 1..Len(attentions) :
          /\ attentions[i] \in 1..Len(lineInfo)
          /\ lineInfo[attentions[i]].attention \notin NoTag

\* a walk is over that tagged five records or more, with four tags or more
C28_Witness ==
    /\ Walked
    /\ Cardinality({lineInfo[attentions[i]].attention :
                       i \in 1..Len(attentions)}) >= 4
    /\ Len(attentions) >= 5
    /\ C28_TaggedOnce

-----------------------------------------------------------------------------
(* The path stored on an import declaration, checked under ParserSpec.     *)

\* the import declaration records of the flat sequence, in source order
ImportRecords ==
    SelectSeq(Iota(Len(lineInfo)),
              LAMBDA i : lineInfo[i].kind = K_ImportDeclaration)

\* the paths stored on them
StoredPaths == [k \in 1..Len(ImportRecords) |-> lineInfo[ImportRecords[k]].path]

\* what the import scanner resolves for the specifiers of a file: every
\* specifier looked up from the directory of that file
ScannerPaths(file) ==
    MapFindFile(PathDirname(file), baseDir, ImportedFiles(file))

\* C29: the path stored on an import declaration node is the result of the
\* resolver for its specifier looked up from the directory of the file that
\* contains the import, the same path the import scanner recorded for that
\* specifier in that file, whichever file was given as the entry file.
C29_PathFromContainingFile ==
    (Walked /\ SourcePathOf(tree) # EMPTY) =>
        StoredPaths = ScannerPaths(SourcePathOf(tree))

-----------------------------------------------------------------------------
(* TreeParser, scanJsxFunctions and scanJsxElements of ts-parser: the      *)
(* jsx-component and jsx-element modes of its main.  An index is the       *)
(* JavaScript index of a record (from 0), as in the source.                *)

K_ReturnKeyword == <<"Return", "Keyword">>
L_return == <<"r", "e", "t", "u", "r", "n">>

\* function f() { return <a></a>; } export function g() {}
SiblingExportSource ==
    Input(<<0, 1, 2, 3, 3, 3, 3, 3, 3, 9, 9, 11, 12, 12, 14, 15, 15, 15, 18,
            15, 14, 14, 22, 22, 22, 12, 9, 2, 28, 29, 28, 28, 28, 28, 28, 28,
            36, 36, 36, 1>>,
          <<K_SourceFile, K_SyntaxList, K_FunctionDeclaration,
            K_FunctionKeyword, K_Identifier, K_OpenParenToken, K_SyntaxList,
            K_CloseParenToken, K_Block, K_OpenBraceToken, K_SyntaxList,
            K_ReturnStatement, K_ReturnKeyword, K_JsxElement,
            K_JsxOpeningElement, K_LessThanToken, K_Identifier,
            K_JsxAttributes, K_SyntaxList, K_GreaterThanToken, K_SyntaxList,
            K_JsxClosingElement, K_LessThanSlashToken, K_Identifier,
            K_GreaterThanToken, K_SemicolonToken, K_CloseBraceToken,
            K_FunctionDeclaration, K_SyntaxList, K_ExportKeyword,
            K_FunctionKeyword, K_Identifier, K_OpenParenToken, K_SyntaxList,
            K_CloseParenToken, K_Block, K_OpenBraceToken, K_SyntaxList,
            K_CloseBraceToken, K_EndOfFileToken>>,
          <<NoLex, NoLex, NoLex, L_function, <<"f">>, <<"(">>, NoLex, <<")">>,
            NoLex, <<"{">>, NoLex, NoLex, L_return, NoLex, NoLex, <<"<">>,
            <<"a">>, NoLex, NoLex, <<">">>, NoLex, NoLex, <<"</">>, <<"a">>,
            <<">">>, <<";">>, <<"}">>, NoLex, NoLex, L_export, L_function,
            <<"g">>, <<"(">>, NoLex, <<")">>, NoLex, <<"{">>, NoLex, <<"}">>,
            NoLex>>,
          NoLeads(40))

\* the sources handed to ts-parser
TreeSources == Sources \cup {SiblingExportSource}

\* the outcome of reading a property of undefined
TypeError == -2

\* nodes[i] of a record list
At(ns, i) == ns[i + 1]

\* the mutant of findCore: a record of the level of record i ends the search
findCore_StopsAtSibling(ns, i, kind) ==
    IF i < 0 THEN (IF Len(ns) = 0 THEN -1 ELSE TypeError)
    ELSE LET ends == {j \in (i + 1)..(Len(ns) - 1) :
                         \/ At(ns, j).level <= At(ns, i).level
                         \/ StartsWith(At(ns, j).kind, kind)}
         IN  IF ends = {} THEN -1
             ELSE LET j == CHOOSE e \in ends : \A k \in ends : e <= k
                  IN  IF At(ns, j).level <= At(ns, i).level THEN -1 ELSE j

\* findCore of nextFind: the first record after i whose kind starts with
\* kind, -1 when a record of a lower level comes first or none is left
findCore(ns, i, kind) ==
    IF i < 0 THEN (IF Len(ns) = 0 THEN -1 ELSE TypeError)
    ELSE LET ends == {j \in (i + 1)..(Len(ns) - 1) :
                         \/ At(ns, j).level < At(ns, i).level
                         \/ StartsWith(At(ns, j).kind, kind)}
         IN  IF ends = {} THEN -1
             ELSE LET j == CHOOSE e \in ends : \A k \in ends : e <= k
                  IN  IF At(ns, j).level < At(ns, i).level THEN -1 ELSE j

\* TreeParser.nextFind(i, kind) for a list of kinds; a single kind is the
\* list of it
RECURSIVE nextFind(_, _, _)
nextFind(ns, i, kind) ==
    IF kind = <<>> THEN i
    ELSE LET j == findCore(ns, i, Head(kind))
         IN  IF j = TypeError THEN TypeError
             ELSE IF j < 0 THEN -1
             ELSE nextFind(ns, j, Tail(kind))

\* TreeParser.prevFind(i, kind)
prevFind(ns, i, kind) ==
    LET ends == {j \in 0..(i - 1) :
                    \/ At(ns, j).level < At(ns, i).level
                    \/ StartsWith(At(ns, j).kind, kind)}
    IN  IF ends = {} THEN 0
        ELSE LET j == CHOOSE e \in ends : \A k \in ends : e >= k
             IN  IF At(ns, j).level < At(ns, i).level THEN -1 ELSE j

\* TreeParser.nextFunction(i)
nextFunction(ns, i) ==
    LET ends == {j \in (i + 1)..(Len(ns) - 1) :
                    At(ns, j).level <= At(ns, i).level}
    IN  IF ends = {} THEN Len(ns)
        ELSE CHOOSE e \in ends : \A k \in ends : e <= k

\* `${... >= 0 ? 'export ' : ''}`
ExportWord(e) == IF e >= 0 THEN <<"export ">> ELSE <<"">>

\* `${e >= 0 ? 'export ' : ''}${result[t].text}`
JsxLine(ns, e, t) == [export |-> ExportWord(e), name |-> At(ns, t).text]

\* scanJsxFunctions(result), the loop from index i on with the lines printed
\* so far
RECURSIVE scanJsxFunctionsFrom(_, _, _)
scanJsxFunctionsFrom(ns, i, lines) ==
    IF i >= Len(ns) THEN [thrown |-> FALSE, lines |-> lines]
    ELSE IF At(ns, i).kind = K_FunctionDeclaration
    THEN LET e == nextFind(ns, i, <<K_ExportKeyword>>)
             t == nextFind(ns, i, <<K_Identifier>>)
             x == nextFind(ns, t, <<K_JsxElement>>)
         IN  IF x = TypeError THEN [thrown |-> TRUE, lines |-> lines]
             ELSE scanJsxFunctionsFrom(ns, nextFunction(ns, i) + 1,
                     IF x >= 0 THEN Append(lines, JsxLine(ns, e, t))
                     ELSE lines)
    ELSE IF At(ns, i).kind = K_VariableStatement
    THEN LET a == nextFind(ns, i, <<K_ArrowFunction>>)
         IN  IF a < 0 THEN scanJsxFunctionsFrom(ns, i + 1, lines)
             ELSE LET e == nextFind(ns, i, <<K_SyntaxList, K_ExportKeyword>>)
                      t == prevFind(ns, a, K_Identifier)
                  IN  scanJsxFunctionsFrom(ns, nextFunction(ns, a) + 1,
                         IF /\ t >= 0
                            /\ \/ nextFind(ns, t, <<K_JsxElement>>) >= 0
                               \/ nextFind(ns, t,
                                           <<K_JsxSelfClosingElement>>) >= 0
                         THEN Append(lines, JsxLine(ns, e, t))
                         ELSE lines)
    ELSE scanJsxFunctionsFrom(ns, i + 1, lines)

scanJsxFunctions(ns) == scanJsxFunctionsFrom(ns, 0, <<>>)

\* a ScanNode; a field that is not set is the empty sequence
NotSet == <<>>

ScanNode(level, export, kind, name) ==
    [level |-> level, export |-> export, kind |-> kind, name |-> name]

\* nodes[t].text of the FunctionDeclaration branch throws: no identifier found
NameThrows(ns, i) ==
    /\ At(ns, i).kind = K_FunctionDeclaration
    /\ nextFind(ns, i, <<K_Identifier>>) < 0

\* what scanJsxElements pushes for the record at index i: at most one
\* ScanNode
JsxElementOf(ns, i) ==
    LET node == At(ns, i)
    IN  IF node.kind = K_ReturnStatement
        THEN <<ScanNode(node.level, NotSet, node.kind, NotSet)>>
        ELSE IF node.kind = K_FunctionDeclaration
        THEN LET e == nextFind(ns, i, <<K_ExportKeyword>>)
                 t == nextFind(ns, i, <<K_Identifier>>)
             IN  IF t < 0 THEN <<>>
                 ELSE <<ScanNode(node.level, ExportWord(e), node.kind,
                                 At(ns, t).text)>>
        ELSE IF node.kind = K_VariableStatement
        THEN LET e == nextFind(ns, i, <<K_SyntaxList, K_ExportKeyword>>)
                 a == nextFind(ns, i, <<K_ArrowFunction>>)
             IN  IF a < 0 THEN <<>>
                 ELSE LET t == prevFind(ns, a, K_Identifier)
                      IN  <<ScanNode(node.level, ExportWord(e), At(ns, a).kind,
                                     IF t >= 0 THEN At(ns, t).text
                                     ELSE NotSet)>>
        ELSE IF node.kind = K_JsxElement
        THEN LET n == nextFind(ns, i, <<K_JsxOpeningElement, K_Identifier>>)
             IN  <<ScanNode(node.level, NotSet, node.kind,
                            IF n >= 0 THEN At(ns, n).text ELSE NotSet)>>
        ELSE IF node.kind = K_JsxSelfClosingElement
        THEN LET n == nextFind(ns, i, <<K_Identifier>>)
             IN  <<ScanNode(node.level, NotSet, node.kind,
                            IF n >= 0 THEN At(ns, n).text ELSE NotSet)>>
        ELSE <<>>

\* the while (true) loop of the closing map: the level stack after node
RECURSIVE SettleLevel(_, _)
SettleLevel(level, l) ==
    IF level = <<>> THEN level
    ELSE IF level[Len(level)] < l THEN Append(level, l)
    ELSE IF level[Len(level)] > l THEN SettleLevel(Pop(level), l)
    ELSE level

\* level.indexOf(l)
LevelIndexOf(level, l) ==
    IF \E k \in 1..Len(level) : level[k] = l
    THEN (CHOOSE k \in 1..Len(level) :
             level[k] = l /\ \A h \in 1..(k - 1) : level[h] # l) - 1
    ELSE -1

\* result.map((node) => ...) of scanJsxElements: the levels renumbered
RECURSIVE Renumber(_, _)
Renumber(pushed, level) ==
    IF pushed = <<>> THEN <<>>
    ELSE LET node == Head(pushed)
             settled == SettleLevel(IF level = <<>> THEN <<node.level>>
                                    ELSE level, node.level)
         IN  <<[node EXCEPT !.level = LevelIndexOf(settled, node.level)]>>
             \o Renumber(Tail(pushed), settled)

\* the loop of scanJsxElements from index i on
RECURSIVE scanJsxElementsFrom(_, _, _)
scanJsxElementsFrom(ns, i, pushed) ==
    IF i >= Len(ns)
    THEN [thrown |-> FALSE, lines |-> Renumber(pushed, <<>>)]
    ELSE IF NameThrows(ns, i)
    THEN [thrown |-> TRUE, lines |-> <<>>]
    ELSE scanJsxElementsFrom(ns, i + 1, pushed \o JsxElementOf(ns, i))

scanJsxElements(ns) == scanJsxElementsFrom(ns, 0, <<>>)

\* main of ts-parser, --mode jsx-component
JsxComponentMode ==
    /\ jsxOut = <<>>
    /\ tree # <<>>
    /\ jsxOut' = [mode |-> "jsx-component"]
                    @@ scanJsxFunctions(scanAllChildren(tree, 1, -1, 0))
    /\ UNCHANGED <<files, unreadable, baseDir, scanVars, rq, rr,
                   componentVars, parserVars, csvVars>>

\* main of ts-parser, --mode jsx-element
JsxElementMode ==
    /\ jsxOut = <<>>
    /\ tree # <<>>
    /\ jsxOut' = [mode |-> "jsx-element"]
                    @@ scanJsxElements(scanAllChildren(tree, 1, -1, 0))
    /\ UNCHANGED <<files, unreadable, baseDir, scanVars, rq, rr,
                   componentVars, parserVars, csvVars>>

TreeInit ==
    /\ files = SrcProject
    /\ unreadable = {}
    /\ baseDir = EMPTY
    /\ srcPath = F_src_index
    /\ pc = "idle"
    /\ stack = <<>>
    /\ cachedFiles = <<>>
    /\ reads = <<>>
    /\ errlog = <<>>
    /\ result = <<>>
    /\ csv = <<>>
    /\ calls = 0
    /\ invocations = 0
    /\ rq = NoRequest
    /\ rr = NoAnswer
    /\ ComponentIdle
    /\ TreeIdle
    /\ CsvIdle
    /\ tree \in TreeSources
    /\ lineInfo = <<>>
    /\ ptr = 0
    /\ astStack = <<>>
    /\ frames = <<>>
    /\ attentions = <<>>
    /\ tested = <<>>
    /\ ppc = "idle"
    /\ nodes = <<>>

TreeNext ==
    \/ JsxComponentMode
    \/ JsxElementMode

TreeSpec == TreeInit /\ [][TreeNext]_vars

\* the records ts-parser's main hands to the jsx modes
TreeRecords == scanAllChildren(tree, 1, -1, 0)

\* record j is in the subtree of record i: every record after i up to j is
\* deeper than i
InSubtree(ns, i, j) ==
    i < j /\ \A k \in (i + 1)..j : At(ns, k).level > At(ns, i).level

\* the kinds the jsx modes look for
FindKinds ==
    {K_ExportKeyword, K_Identifier, K_FunctionKeyword, K_ArrowFunction,
     K_SyntaxList, K_JsxElement, K_JsxSelfClosingElement,
     K_JsxOpeningElement}

\* the declaration at index i has an export keyword of its own
OwnExport(ns, i) ==
    \E j \in (i + 1)..(Len(ns) - 1) :
        At(ns, j).kind = K_ExportKeyword /\ InSubtree(ns, i, j)

\* the names of the function declarations and arrow variable statements
\* that have an export keyword of their own
ExportedNames(ns) ==
    {At(ns, t).text :
        t \in {u \in 0..(Len(ns) - 1) :
                 \E i \in 0..(Len(ns) - 1) :
                    /\ At(ns, i).kind \in {K_FunctionDeclaration,
                                           K_VariableStatement}
                    /\ OwnExport(ns, i)
                    /\ At(ns, u).kind = K_Identifier
                    /\ InSubtree(ns, i, u)}}

\* the lines of the output that are marked as exported
ExportLines ==
    {k \in 1..Len(jsxOut.lines) :
        jsxOut.lines[k].export = <<"export ">>}

\* C30: nextFind(i, kind) returns an index j only if record j is in the
\* subtree of record i, and -1 otherwise; hence the jsx modes report a
\* function or variable statement as exported only when the export keyword
\* belongs to that same declaration, never because of a later sibling.
C30_FindWithinSubtree ==
    jsxOut # <<>> =>
        /\ \A i \in 0..(Len(TreeRecords) - 1) : \A kind \in FindKinds :
              LET j == nextFind(TreeRecords, i, <<kind>>)
              IN  j = -1 \/ InSubtree(TreeRecords, i, j)
        /\ \A k \in ExportLines :
              jsxOut.lines[k].name \in ExportedNames(TreeRecords)

=============================================================================
